---- MODULE Spec2Model ----
(***************************************************************************)
(* Aspect classification and aspect-pattern detection of the natal chart   *)
(* calculator (src/aspects.py).                                            *)
(*                                                                         *)
(* Python values are modelled as follows.  Longitudes, angles and orbs are *)
(* whole degrees.  Strength scores are thousandths (0.775 is 775).  A dict *)
(* is a sequence of entries in insertion order.  An argument that may be   *)
(* None or of the wrong type is a record [kind, items].  A call that ends  *)
(* by an exception leaving the function has status "raised".               *)
(***************************************************************************)
EXTENDS Integers, Sequences, FiniteSets, TLC

\* ------------------------------------------------------------------ bounds
\* Largest number of bodies in a chart.
MaxBodies == 5
\* angle_difference is called on multiples of 45 degrees, one degree either
\* side of them, up to this many eighths of a turn in both directions.
MaxTurns == 9
\* calculate_aspect_strength is called with whole-degree orbs up to this one;
\* the actual orb goes one beyond it.
MaxOrb == 8
\* The database: the number of rows ever inserted, all tables together.
MaxRows == 2

\* ------------------------------------------------------ the charts explored
\* Insertion order of the chart's dict; chiron is outside the T-square
\* whitelist.
BodyOrder == <<"sun", "moon", "mars", "venus", "chiron", "jupiter">>

\* Longitudes the position provider may report for each body of BodyOrder.
Ephemeris ==
    <<{0, 30}, {8, 90, 120, 150}, {180, 210, 240, 352},
      {8, 270, 352}, {0, 270}, {90, 240}>>

AngleInputs == {45 * t + d : t \in (0 - MaxTurns)..MaxTurns, d \in {0 - 1, 0, 1}}

\* ------------------------------------------------------------ calculations
ZODIAC_SIGNS == <<"Aries", "Taurus", "Gemini", "Cancer", "Leo", "Virgo",
                  "Libra", "Scorpio", "Sagittarius", "Capricorn", "Aquarius", "Pisces">>

deg_to_sign_deg(lon) == ZODIAC_SIGNS[((lon % 360) \div 30) + 1]

\* One entry of the bodies dict as get_planet_longitudes builds it.
Body(name, lon) ==
    [name |-> name, lon |-> lon, lonKind |-> "num",
     sign |-> deg_to_sign_deg(lon), hasSign |-> TRUE]

\* ----------------------------------------------------------------- aspects
AspectOrder == <<"conjunction", "semi-sextile", "semi-square", "sextile",
                 "square", "trine", "quincunx", "opposition">>

ASPECTS ==
    ("conjunction" :> 0) @@ ("semi-sextile" :> 30) @@ ("semi-square" :> 45) @@
    ("sextile" :> 60) @@ ("square" :> 90) @@ ("trine" :> 120) @@
    ("quincunx" :> 150) @@ ("opposition" :> 180)

\* An orb table whose sextile window reaches into its neighbours'.
ASPECT_ORBS_overlapping ==
    ("conjunction" :> 8) @@ ("semi-sextile" :> 2) @@ ("semi-square" :> 2) @@
    ("sextile" :> 26) @@ ("square" :> 7) @@ ("trine" :> 8) @@
    ("quincunx" :> 2) @@ ("opposition" :> 8)

ASPECT_ORBS ==
    ("conjunction" :> 8) @@ ("semi-sextile" :> 2) @@ ("semi-square" :> 2) @@
    ("sextile" :> 6) @@ ("square" :> 7) @@ ("trine" :> 8) @@
    ("quincunx" :> 2) @@ ("opposition" :> 8)

Abs(x) == IF x < 0 THEN 0 - x ELSE x

angle_difference_unfolded(a, b) == Abs(a - b) % 360

angle_difference(a, b) ==
    LET diff == Abs(a - b) % 360
    IN  IF diff > 180 THEN 360 - diff ELSE diff

\* Importance weights of calculate_aspect_strength, in tenths.
aspect_weights ==
    ("conjunction" :> 10) @@ ("opposition" :> 9) @@ ("trine" :> 8) @@
    ("square" :> 8) @@ ("sextile" :> 6) @@ ("quincunx" :> 4) @@
    ("semi-square" :> 3) @@ ("semi-sextile" :> 2)

\* calculate_aspect_strength on numeric orbs and a string kind.  The value is
\* in thousandths: round(x, 3) of x = (1 - actual_orb/max_orb) * weight,
\* clamped to [0, 1].  With the orbs of this model x never lies half way
\* between two thousandths.
calculate_aspect_strength(actual_orb, max_orb, aspect_type) ==
    IF max_orb <= 0
    THEN [raised |-> TRUE, value |-> 0]
    ELSE LET a == Abs(actual_orb)
             w == IF aspect_type \in DOMAIN aspect_weights
                  THEN aspect_weights[aspect_type] ELSE 5
             num == (max_orb - a) * w * 100
             val == IF num < 0 THEN 0
                    ELSE IF num > 1000 * max_orb THEN 1000
                    ELSE (2 * num + max_orb) \div (2 * max_orb)
         IN  [raised |-> FALSE, value |-> val]

\* Arguments of any type.  An orb is [kind, val]: an int ("int", val), a
\* float NaN ("nan"), a float infinity ("inf", val its sign), a str or None.
\* A kind is [kind, name]: a str ("str", name), an int or None.
IntArg(n) == [kind |-> "int", val |-> n]
NanArg == [kind |-> "nan", val |-> 0]
InfArg(sign) == [kind |-> "inf", val |-> sign]
NumericKinds == {"int", "nan", "inf"}

\* isinstance(val, (int, float))
IsNumeric(arg) == arg.kind \in NumericKinds

\* x < 0 and x <= 0 on a float or int: every comparison with NaN is False.
IsNegative(arg) == arg.kind \in {"int", "inf"} /\ arg.val < 0
IsNotPositive(arg) == arg.kind \in {"int", "inf"} /\ arg.val <= 0

\* abs(x)
AbsArg(arg) == IF IsNegative(arg) THEN [arg EXCEPT !.val = 0 - arg.val] ELSE arg

\* round(strength, 3) is taken of a binary float: where the exact product
\* lies half way between two thousandths the float lies on either side.
RoundingTie(actual_orb, max_orb, aspect_type) ==
    LET w == IF aspect_type \in DOMAIN aspect_weights
             THEN aspect_weights[aspect_type] ELSE 5
        num == (max_orb - Abs(actual_orb)) * w * 100
    IN  num > 0 /\ (2 * num + max_orb) % (2 * max_orb) = 0

StrengthRaised == [status |-> "raised", nan |-> FALSE, value |-> 0]
StrengthNan == [status |-> "returned", nan |-> TRUE, value |-> 0]
StrengthValue(v) == [status |-> "returned", nan |-> FALSE, value |-> v]

\* The validation without the check of the orbs' types: a str or None orb
\* is read as 0.
calculate_aspect_strength_unvalidated(actual_orb, max_orb, aspect_type) ==
    LET a == IF IsNumeric(actual_orb) THEN actual_orb ELSE IntArg(0)
        m == IF IsNumeric(max_orb) THEN max_orb ELSE IntArg(0)
    IN  IF aspect_type.kind # "str" \/ IsNotPositive(m) THEN {StrengthRaised}
        ELSE IF a.kind # "int" \/ m.kind # "int" THEN {StrengthNan}
        ELSE {StrengthValue(calculate_aspect_strength(a.val, m.val, aspect_type.name).value)}

\* calculate_aspect_strength on arguments of any type: the set of results
\* the call may end with (one, but for a rounding tie).
calculate_aspect_strength_call(actual_orb, max_orb, aspect_type) ==
    IF ~IsNumeric(actual_orb) \/ ~IsNumeric(max_orb) THEN {StrengthRaised}
    ELSE IF aspect_type.kind # "str" THEN {StrengthRaised}
    ELSE IF IsNotPositive(max_orb) THEN {StrengthRaised}
    ELSE LET a == AbsArg(actual_orb)
         IN  IF a.kind = "nan" \/ max_orb.kind = "nan" THEN {StrengthNan}
             ELSE IF a.kind = "inf" /\ max_orb.kind = "inf" THEN {StrengthNan}
             ELSE IF a.kind = "inf" THEN {StrengthValue(0)}
             ELSE IF max_orb.kind = "inf"
             THEN {StrengthValue(
                      calculate_aspect_strength(0, 1, aspect_type.name).value)}
             ELSE LET v == calculate_aspect_strength(
                               a.val, max_orb.val, aspect_type.name).value
                  IN  IF RoundingTie(a.val, max_orb.val, aspect_type.name)
                      THEN {StrengthValue(v), StrengthValue(v - 1)}
                      ELSE {StrengthValue(v)}

\* aspect_orbs.get(asp, 5)
OrbGet(aspect_orbs, asp) ==
    IF asp \in DOMAIN aspect_orbs THEN aspect_orbs[asp] ELSE 5

\* The loop over ASPECTS.items() for one pair, from the k-th kind on: the
\* indices of the kinds a record is appended for.  The break after the append
\* ends the loop at the first one.  A kind whose tolerance matches but whose
\* strength scoring raises is passed over by the inner except/continue and
\* the scan goes on with the next kind.
RECURSIVE ScanKindsNoBreak(_, _, _)
ScanKindsNoBreak(diff, aspect_orbs, k) ==
    IF k > Len(AspectOrder) THEN <<>>
    ELSE LET asp == AspectOrder[k]
             orb == OrbGet(aspect_orbs, asp)
         IN  (IF Abs(diff - ASPECTS[asp]) <= orb /\ orb > 0 THEN <<k>> ELSE <<>>)
             \o ScanKindsNoBreak(diff, aspect_orbs, k + 1)

ScanKindsLast(diff, aspect_orbs, k) ==
    LET all == ScanKindsNoBreak(diff, aspect_orbs, k)
    IN  IF all = <<>> THEN <<>> ELSE <<all[Len(all)]>>

RECURSIVE ScanKinds(_, _, _)
ScanKinds(diff, aspect_orbs, k) ==
    IF k > Len(AspectOrder) THEN <<>>
    ELSE LET asp == AspectOrder[k]
             orb == OrbGet(aspect_orbs, asp)
         IN  IF Abs(diff - ASPECTS[asp]) <= orb
             THEN IF calculate_aspect_strength(Abs(diff - ASPECTS[asp]), orb, asp).raised
                  THEN ScanKinds(diff, aspect_orbs, k + 1)
                  ELSE <<k>>
             ELSE ScanKinds(diff, aspect_orbs, k + 1)

\* The records appended for one pair.  `defect` is "none" for every record
\* built here; callers may hand detect_aspect_patterns records that are
\* malformed in one of the ways build_aspect_graph guards against.
PairAspect(b1, b2, aspect_orbs) ==
    IF b1.lonKind # "num" \/ b2.lonKind # "num" THEN <<>>
    ELSE LET diff == angle_difference(b1.lon, b2.lon)
             kinds == ScanKinds(diff, aspect_orbs, 1)
         IN  [r \in 1..Len(kinds) |->
                 LET asp == AspectOrder[kinds[r]]
                     orb == Abs(diff - ASPECTS[asp])
                 IN  [between |-> <<b1.name, b2.name>>,
                      aspect |-> asp,
                      angle |-> diff,
                      orb |-> orb,
                      strength |-> calculate_aspect_strength(
                                       orb, OrbGet(aspect_orbs, asp), asp).value,
                      defect |-> "none"]]

\* for i in range(len(names)): for j in range(i+1, len(names)): ...
RECURSIVE PairLoop(_, _, _, _)
PairLoop(cands, aspect_orbs, i, j) ==
    IF i > Len(cands) THEN <<>>
    ELSE IF j > Len(cands) THEN PairLoop(cands, aspect_orbs, i + 1, i + 2)
    ELSE PairAspect(cands[i], cands[j], aspect_orbs)
         \o PairLoop(cands, aspect_orbs, i, j + 1)

Raised == [status |-> "raised", value |-> <<>>]
Returned(v) == [status |-> "returned", value |-> v]

\* Arguments.  bodies: [kind: "dict" | "none" | "list", items: entries].
\* aspect_orbs: [kind: "none" | "dict" | "list", table].  include_points:
\* [kind: "none" | "list" | "set", names: set of names].
NoOrbs == [kind |-> "none", table |-> ASPECT_ORBS]
NoPoints == [kind |-> "none", names |-> {}]
DictOf(items) == [kind |-> "dict", items |-> items]

\* The longitude check made after the filter, on the candidates only.
compute_aspects_checking_candidates(bodies, aspect_orbs, include_points) ==
    IF bodies.kind # "dict" \/ bodies.items = <<>> THEN Raised
    ELSE IF aspect_orbs.kind \notin {"none", "dict"} THEN Raised
    ELSE IF include_points.kind = "set" /\ include_points.names # {} THEN Raised
    ELSE LET orbs == IF aspect_orbs.kind = "none" THEN ASPECT_ORBS
                     ELSE aspect_orbs.table
             filtered == include_points.kind # "none" /\ include_points.names # {}
             In(b) == b.name \in include_points.names
             cands == IF filtered THEN SelectSeq(bodies.items, In)
                      ELSE bodies.items
         IN  IF \E i \in 1..Len(cands) : cands[i].lonKind = "missing" THEN Raised
             ELSE IF Len(cands) < 2 THEN Returned(<<>>)
             ELSE Returned(PairLoop(cands, orbs, 1, 2))

compute_aspects(bodies, aspect_orbs, include_points) ==
    IF bodies.kind # "dict" \/ bodies.items = <<>> THEN Raised
    ELSE IF aspect_orbs.kind \notin {"none", "dict"} THEN Raised
    ELSE IF \E i \in 1..Len(bodies.items) : bodies.items[i].lonKind = "missing"
    THEN Raised
    ELSE IF include_points.kind = "set" /\ include_points.names # {} THEN Raised
    ELSE LET orbs == IF aspect_orbs.kind = "none" THEN ASPECT_ORBS
                     ELSE aspect_orbs.table
             filtered == include_points.kind # "none" /\ include_points.names # {}
             In(b) == b.name \in include_points.names
             cands == IF filtered THEN SelectSeq(bodies.items, In)
                      ELSE bodies.items
         IN  IF Len(cands) < 2 THEN Returned(<<>>)
             ELSE Returned(PairLoop(cands, orbs, 1, 2))

\* ------------------------------------------------------------ aspect graph
\* The graph dict: `nodes` are its keys in insertion order, adj[n] the list
\* of {"to", "aspect"} connections of n.
EmptyGraph == [nodes |-> <<>>, adj |-> [n \in {} |-> <<>>]]

GraphKinds == {"square", "trine", "opposition", "quincunx", "conjunction"}

SeqSet(s) == {s[i] : i \in 1..Len(s)}

\* graph.get(body, [])
GraphGet(graph, body) ==
    IF body \in DOMAIN graph.adj THEN graph.adj[body] ELSE <<>>

\* The loop body appending the connection to the first body's list only.
AddAspectOneWay(graph, aspect) ==
    IF aspect.defect # "none" THEN graph
    ELSE IF aspect.aspect \notin GraphKinds THEN graph
    ELSE LET body1 == aspect.between[1]
             body2 == aspect.between[2]
             n1 == IF body1 \in SeqSet(graph.nodes) THEN graph.nodes
                   ELSE Append(graph.nodes, body1)
             n2 == IF body2 \in SeqSet(n1) THEN n1 ELSE Append(n1, body2)
             Conns(n) ==
                 IF n = body1
                 THEN Append(GraphGet(graph, n), [to |-> body2, aspect |-> aspect.aspect])
                 ELSE GraphGet(graph, n)
         IN  [nodes |-> n2, adj |-> [n \in SeqSet(n2) |-> Conns(n)]]

\* The loop body testing the participants' types after the first body's
\* list was created and appended to.
AddAspectBeforeTypeCheck(graph, aspect) ==
    IF aspect.defect \notin {"none", "not_str"} THEN graph
    ELSE IF aspect.aspect \notin GraphKinds THEN graph
    ELSE LET body1 == aspect.between[1]
             body2 == aspect.between[2]
             n1 == IF body1 \in SeqSet(graph.nodes) THEN graph.nodes
                   ELSE Append(graph.nodes, body1)
             n2 == IF body2 \in SeqSet(n1) \/ aspect.defect = "not_str" THEN n1
                   ELSE Append(n1, body2)
             Conns(n) ==
                 LET c0 == GraphGet(graph, n)
                     c1 == IF n = body1
                           THEN Append(c0, [to |-> body2, aspect |-> aspect.aspect])
                           ELSE c0
                 IN  IF n = body2 /\ aspect.defect = "none"
                     THEN Append(c1, [to |-> body1, aspect |-> aspect.aspect])
                     ELSE c1
         IN  [nodes |-> n2, adj |-> [n \in SeqSet(n2) |-> Conns(n)]]

\* One pass of the loop body of build_aspect_graph.  A record that lacks a
\* key, is no dict, names other than two bodies or names a non-string is left
\* before the graph is touched.
AddAspect(graph, aspect) ==
    IF aspect.defect # "none" THEN graph
    ELSE IF aspect.aspect \notin GraphKinds THEN graph
    ELSE LET body1 == aspect.between[1]
             body2 == aspect.between[2]
             n1 == IF body1 \in SeqSet(graph.nodes) THEN graph.nodes
                   ELSE Append(graph.nodes, body1)
             n2 == IF body2 \in SeqSet(n1) THEN n1 ELSE Append(n1, body2)
             Conns(n) ==
                 LET c0 == GraphGet(graph, n)
                     c1 == IF n = body1
                           THEN Append(c0, [to |-> body2, aspect |-> aspect.aspect])
                           ELSE c0
                 IN  IF n = body2
                     THEN Append(c1, [to |-> body1, aspect |-> aspect.aspect])
                     ELSE c1
         IN  [nodes |-> n2, adj |-> [n \in SeqSet(n2) |-> Conns(n)]]

RECURSIVE GraphLoop(_, _, _)
GraphLoop(graph, items, i) ==
    IF i > Len(items) THEN graph
    ELSE GraphLoop(AddAspect(graph, items[i]), items, i + 1)

\* aspects: [kind: "list" | "none" | "str", items: records]
build_aspect_graph(aspects) ==
    IF aspects.kind # "list" \/ aspects.items = <<>> THEN EmptyGraph
    ELSE GraphLoop(EmptyGraph, aspects.items, 1)

has_aspect_between(graph, body1, body2, aspect_type) ==
    \E i \in 1..Len(GraphGet(graph, body1)) :
        /\ GraphGet(graph, body1)[i].to = body2
        /\ GraphGet(graph, body1)[i].aspect = aspect_type

\* ------------------------------------------------------- pattern strengths
personal_planets == {"sun", "moon", "mercury", "venus", "mars"}

PersonalCount(planets) ==
    Cardinality({i \in 1..Len(planets) : planets[i] \in personal_planets})

calculate_pattern_strength(focal_planet, base_planets) ==
    500 + 100 * PersonalCount(<<focal_planet>> \o base_planets)

calculate_grand_trine_strength(planets) == 600 + 80 * PersonalCount(planets)

calculate_cross_strength(planets) == 700 + 75 * PersonalCount(planets)

calculate_yod_strength(focal_planet, base_planets) ==
    400 + 120 * PersonalCount(<<focal_planet>> \o base_planets)

\* --------------------------------------------------------------- T-squares
valid_bodies ==
    {"sun", "moon", "mercury", "venus", "mars", "jupiter", "saturn",
     "uranus", "neptune", "pluto", "north_node", "south_node"}

RECURSIVE Flatten(_)
Flatten(ss) == IF ss = <<>> THEN <<>> ELSE Head(ss) \o Flatten(Tail(ss))

ToValid(conn) == conn.to \in valid_bodies
IsOpposition(conn) == conn.aspect = "opposition"
IsSquare(conn) == conn.aspect = "square"
IsQuincunx(conn) == conn.aspect = "quincunx"

\* detect_t_squares working on the graph as it is given.
FilteredGraphKeepingAll(graph) ==
    [nodes |-> graph.nodes,
     adj |-> [n \in SeqSet(graph.nodes) |-> GraphGet(graph, n)]]

\* filtered_graph of detect_t_squares
FilteredGraph(graph) ==
    LET Keep(n) == n \in valid_bodies /\ SelectSeq(GraphGet(graph, n), ToValid) # <<>>
        kept == SelectSeq(graph.nodes, Keep)
    IN  [nodes |-> kept,
         adj |-> [n \in SeqSet(kept) |-> SelectSeq(GraphGet(graph, n), ToValid)]]

\* The list `oppositions` with each opposition listed from one end only.
OppositionsFromOneEnd(fg) ==
    Flatten([i \in 1..Len(fg.nodes) |->
        LET ToLaterNode(conn) ==
                /\ IsOpposition(conn)
                /\ \E j \in (i + 1)..Len(fg.nodes) : fg.nodes[j] = conn.to
            opp == SelectSeq(fg.adj[fg.nodes[i]], ToLaterNode)
        IN  [c \in 1..Len(opp) |-> <<fg.nodes[i], opp[c].to>>]])

\* The list `oppositions`: one (body, other end) per opposition connection,
\* so each opposition aspect is listed from both of its ends.
Oppositions(fg) ==
    Flatten([i \in 1..Len(fg.nodes) |->
        LET opp == SelectSeq(fg.adj[fg.nodes[i]], IsOpposition)
        IN  [c \in 1..Len(opp) |-> <<fg.nodes[i], opp[c].to>>]])

Rank(name) == CHOOSE i \in 1..Len(BodyOrder) : BodyOrder[i] = name

\* The order in which a for loop walks a set of names.  CPython fixes it
\* per process by the string hash seed: `seed` picks one of two orders.
RECURSIVE SetOrder(_, _)
SetOrder(S, seed) ==
    IF S = {} THEN <<>>
    ELSE LET x == CHOOSE y \in S : \A z \in S :
                      IF seed THEN Rank(z) <= Rank(y) ELSE Rank(y) <= Rank(z)
         IN  <<x>> \o SetOrder(S \ {x}, seed)

\* The inner loop over common_squares for one opposition: acc is
\* [reported, out, suppressed], where suppressed lists the candidates
\* (focal_planet, body1, body2) the reported_configs guard turned away.
\* The focal loop without the reported_configs guard.
RECURSIVE FocalLoopNoDedup(_, _, _, _)
FocalLoopNoDedup(acc, focals, body1, body2) ==
    IF focals = <<>> THEN acc
    ELSE LET focal_planet == Head(focals)
             next == [reported |-> acc.reported,
                      suppressed |-> acc.suppressed,
                      out |-> Append(acc.out,
                          [type |-> "T-square",
                           focal_planet |-> focal_planet,
                           opposition |-> <<body1, body2>>,
                           strength |-> calculate_pattern_strength(
                               focal_planet, <<body1, body2>>)])]
         IN  FocalLoopNoDedup(next, Tail(focals), body1, body2)

RECURSIVE FocalLoop(_, _, _, _)
FocalLoop(acc, focals, body1, body2) ==
    IF focals = <<>> THEN acc
    ELSE LET focal_planet == Head(focals)
             config == {focal_planet, body1, body2}
             next == IF config \in acc.reported
                     THEN [acc EXCEPT !.suppressed =
                               Append(@, <<focal_planet, body1, body2>>)]
                     ELSE [reported |-> acc.reported \cup {config},
                           suppressed |-> acc.suppressed,
                           out |-> Append(acc.out,
                               [type |-> "T-square",
                                focal_planet |-> focal_planet,
                                opposition |-> <<body1, body2>>,
                                strength |-> calculate_pattern_strength(
                                    focal_planet, <<body1, body2>>)])]
         IN  FocalLoop(next, Tail(focals), body1, body2)

RECURSIVE OppositionLoop(_, _, _, _)
OppositionLoop(acc, fg, opps, seed) ==
    IF opps = <<>> THEN acc
    ELSE LET body1 == Head(opps)[1]
             body2 == Head(opps)[2]
             sq1 == {c.to : c \in SeqSet(SelectSeq(GraphGet(fg, body1), IsSquare))}
             sq2 == {c.to : c \in SeqSet(SelectSeq(GraphGet(fg, body2), IsSquare))}
         IN  OppositionLoop(
                 FocalLoop(acc, SetOrder(sq1 \cap sq2, seed), body1, body2),
                 fg, Tail(opps), seed)

\* The two loops of detect_t_squares, run to the end.
TSquareLoops(graph, seed) ==
    LET fg == FilteredGraph(graph)
    IN  OppositionLoop([reported |-> {}, out |-> <<>>, suppressed |-> <<>>],
                       fg, Oppositions(fg), seed)

detect_t_squares(graph, seed) == TSquareLoops(graph, seed).out

\* ------------------------------------------------------------ Grand Trines
get_trine_element(longitude) ==
    LET deg == longitude % 360
    IN  IF 0 <= deg /\ deg < 120 THEN "Fire"
        ELSE IF 120 <= deg /\ deg < 240 THEN "Earth"
        ELSE "Air/Water"

\* A detector's outcome: the list it returns, or raised.
Detected(list) == [raised |-> FALSE, list |-> list]
DetectorRaised == [raised |-> TRUE, list |-> <<>>]

\* The three nested loops of detect_grand_trines: the index triples whose
\* trine_count is 3, in the order they are met.
\* The triple loop without the check of the second against the third body.
RECURSIVE TrineLoopTwoOfThree(_, _, _, _, _)
TrineLoopTwoOfThree(graph, planets, i, j, k) ==
    IF i > Len(planets) THEN <<>>
    ELSE IF j > Len(planets)
         THEN TrineLoopTwoOfThree(graph, planets, i + 1, i + 2, i + 3)
    ELSE IF k > Len(planets)
         THEN TrineLoopTwoOfThree(graph, planets, i, j + 1, j + 2)
    ELSE LET hit == /\ has_aspect_between(graph, planets[i], planets[j], "trine")
                    /\ has_aspect_between(graph, planets[i], planets[k], "trine")
         IN  (IF hit THEN <<<<i, j, k>>>> ELSE <<>>)
             \o TrineLoopTwoOfThree(graph, planets, i, j, k + 1)

RECURSIVE TrineLoop(_, _, _, _, _)
TrineLoop(graph, planets, i, j, k) ==
    IF i > Len(planets) THEN <<>>
    ELSE IF j > Len(planets) THEN TrineLoop(graph, planets, i + 1, i + 2, i + 3)
    ELSE IF k > Len(planets) THEN TrineLoop(graph, planets, i, j + 1, j + 2)
    ELSE LET p1 == planets[i]
             p2 == planets[j]
             p3 == planets[k]
             hit == /\ has_aspect_between(graph, p1, p2, "trine")
                    /\ has_aspect_between(graph, p1, p3, "trine")
                    /\ has_aspect_between(graph, p2, p3, "trine")
         IN  (IF hit THEN <<<<i, j, k>>>> ELSE <<>>)
             \o TrineLoop(graph, planets, i, j, k + 1)

\* The names of BodyOrder in the order Python compares strings.
SortedNames == <<"chiron", "jupiter", "mars", "moon", "sun", "venus">>

\* The position in bodies of the member of a triple that sorts first.
LexFirst(bodies, triple) ==
    CHOOSE i \in SeqSet(triple) :
        \A j \in SeqSet(triple) :
            (CHOOSE r \in 1..Len(SortedNames) : SortedNames[r] = bodies[i].name)
                <= (CHOOSE r \in 1..Len(SortedNames) : SortedNames[r] = bodies[j].name)

\* detect_grand_trines taking the element from the member whose name sorts
\* first.
detect_grand_trines_lexicographic(graph, bodies) ==
    LET planets == [i \in 1..Len(bodies) |-> bodies[i].name]
        found == TrineLoop(graph, planets, 1, 2, 3)
    IN  IF \E f \in 1..Len(found) : bodies[found[f][1]].lonKind # "num"
        THEN DetectorRaised
        ELSE Detected([f \in 1..Len(found) |->
                 LET t == found[f]
                     ps == <<planets[t[1]], planets[t[2]], planets[t[3]]>>
                 IN  [type |-> "Grand Trine",
                      planets |-> ps,
                      element |-> get_trine_element(bodies[LexFirst(bodies, t)].lon),
                      strength |-> calculate_grand_trine_strength(ps)]])

\* bodies: the dict's entries.  Reading the longitude of the first member of
\* a found triple raises when the entry has none, and get_trine_element
\* raises on one that is no number.
detect_grand_trines(graph, bodies) ==
    LET planets == [i \in 1..Len(bodies) |-> bodies[i].name]
        found == TrineLoop(graph, planets, 1, 2, 3)
    IN  IF \E f \in 1..Len(found) : bodies[found[f][1]].lonKind # "num"
        THEN DetectorRaised
        ELSE Detected([f \in 1..Len(found) |->
                 LET t == found[f]
                     ps == <<planets[t[1]], planets[t[2]], planets[t[3]]>>
                 IN  [type |-> "Grand Trine",
                      planets |-> ps,
                      element |-> get_trine_element(bodies[t[1]].lon),
                      strength |-> calculate_grand_trine_strength(ps)]])

\* ----------------------------------------------------------- Grand Crosses
\* The cross test counting the squares only.
is_grand_cross_squares_only(graph, planets) ==
    IF Len(planets) # 4 THEN FALSE
    ELSE LET pairs == {<<i, j>> \in (1..4) \X (1..4) : i < j}
         IN  Cardinality({pr \in pairs :
                 has_aspect_between(graph, planets[pr[1]], planets[pr[2]],
                                    "square")}) = 4

\* The cross test counting the oppositions only.
is_grand_cross_oppositions_only(graph, planets) ==
    IF Len(planets) # 4 THEN FALSE
    ELSE LET pairs == {<<i, j>> \in (1..4) \X (1..4) : i < j}
         IN  Cardinality({pr \in pairs :
                 has_aspect_between(graph, planets[pr[1]], planets[pr[2]],
                                    "opposition")}) = 2

is_grand_cross(graph, planets) ==
    IF Len(planets) # 4 THEN FALSE
    ELSE LET pairs == {<<i, j>> \in (1..4) \X (1..4) : i < j}
             square_count == Cardinality({pr \in pairs :
                 has_aspect_between(graph, planets[pr[1]], planets[pr[2]], "square")})
             opposition_count == Cardinality({pr \in pairs :
                 /\ ~has_aspect_between(graph, planets[pr[1]], planets[pr[2]], "square")
                 /\ has_aspect_between(graph, planets[pr[1]], planets[pr[2]], "opposition")})
         IN  square_count = 4 /\ opposition_count = 2

\* max(mod_counts, key=mod_counts.get): the first of cardinal, fixed, mutable
\* with the largest count.
get_cross_cardinality(longitudes) ==
    LET sign_num(lon) == (lon \div 30) % 12
        cardinal == Cardinality({i \in 1..Len(longitudes) :
                        sign_num(longitudes[i]) \in {0, 3, 6, 9}})
        fixed == Cardinality({i \in 1..Len(longitudes) :
                        sign_num(longitudes[i]) \in {1, 4, 7, 10}})
        mutable == Len(longitudes) - cardinal - fixed
    IN  IF cardinal >= fixed /\ cardinal >= mutable THEN "cardinal"
        ELSE IF fixed >= mutable THEN "fixed"
        ELSE "mutable"

RECURSIVE CrossLoop(_, _, _, _, _, _)
CrossLoop(graph, planets, i, j, k, l) ==
    IF i > Len(planets) THEN <<>>
    ELSE IF j > Len(planets) THEN CrossLoop(graph, planets, i + 1, i + 2, i + 3, i + 4)
    ELSE IF k > Len(planets) THEN CrossLoop(graph, planets, i, j + 1, j + 2, j + 3)
    ELSE IF l > Len(planets) THEN CrossLoop(graph, planets, i, j, k + 1, k + 2)
    ELSE (IF is_grand_cross(graph, <<planets[i], planets[j], planets[k], planets[l]>>)
          THEN <<<<i, j, k, l>>>> ELSE <<>>)
         \o CrossLoop(graph, planets, i, j, k, l + 1)

detect_grand_crosses(graph, bodies) ==
    LET planets == [i \in 1..Len(bodies) |-> bodies[i].name]
        found == CrossLoop(graph, planets, 1, 2, 3, 4)
    IN  IF \E f \in 1..Len(found) : \E m \in 1..4 :
               bodies[found[f][m]].lonKind # "num"
        THEN DetectorRaised
        ELSE Detected([f \in 1..Len(found) |->
                 LET q == found[f]
                     ps == [m \in 1..4 |-> planets[q[m]]]
                 IN  [type |-> "Grand Cross",
                      planets |-> ps,
                      cardinality |-> get_cross_cardinality(
                                          [m \in 1..4 |-> bodies[q[m]].lon]),
                      strength |-> calculate_cross_strength(ps)]])

\* -------------------------------------------------------------------- Yods
RECURSIVE YodPairLoop(_, _, _, _, _)
YodPairLoop(graph, focal, quincunx_to, i, j) ==
    IF i > Len(quincunx_to) THEN <<>>
    ELSE IF j > Len(quincunx_to)
    THEN YodPairLoop(graph, focal, quincunx_to, i + 1, i + 2)
    ELSE LET p1 == quincunx_to[i]
             p2 == quincunx_to[j]
         IN  (IF has_aspect_between(graph, p1, p2, "sextile")
              THEN <<[type |-> "Yod",
                      focal_planet |-> focal,
                      base_planets |-> <<p1, p2>>,
                      strength |-> calculate_yod_strength(focal, <<p1, p2>>)]>>
              ELSE <<>>)
             \o YodPairLoop(graph, focal, quincunx_to, i, j + 1)

detect_yods(graph, bodies) ==
    Flatten([f \in 1..Len(bodies) |->
        LET focal == bodies[f].name
            qs == SelectSeq(GraphGet(graph, focal), IsQuincunx)
            quincunx_to == [c \in 1..Len(qs) |-> qs[c].to]
        IN  IF Len(quincunx_to) >= 2
            THEN YodPairLoop(graph, focal, quincunx_to, 1, 2)
            ELSE <<>>])

\* --------------------------------------------------------------- Stelliums
\* Default of the orb parameter of detect_stelliums.
DefaultStelliumOrb == 8

\* list.sort(key=longitude): stable, so equal longitudes keep dict order.
RECURSIVE SortByLon(_)
SortByLon(items) ==
    IF items = <<>> THEN <<>>
    ELSE LET n == Len(items)
             rest == SortByLon(SubSeq(items, 1, n - 1))
             x == items[n]
             Before(y) == y.lon <= x.lon
             After(y) == y.lon > x.lon
         IN  SelectSeq(rest, Before) \o <<x>> \o SelectSeq(rest, After)

\* The inner loop over j for the seed positions[i].
RECURSIVE ClusterLoop(_, _, _, _, _, _)
ClusterLoop(positions, processed, orb, i, j, cluster) ==
    IF j > Len(positions) THEN cluster
    ELSE IF positions[j].name \in processed
    THEN ClusterLoop(positions, processed, orb, i, j + 1, cluster)
    ELSE IF angle_difference(positions[i].lon, positions[j].lon) <= orb
    THEN ClusterLoop(positions, processed, orb, i, j + 1, Append(cluster, positions[j]))
    ELSE cluster

\* One pass of the outer loop for the seed positions[i]: acc is
\* [processed, out, raised, seeds], where seeds lists the bodies taken as
\* seed, each with the number of stelliums reported by then.
SeedStep(acc, positions, orb, i) ==
    LET cluster == ClusterLoop(positions, acc.processed, orb, i, i + 1,
                               <<positions[i]>>)
        seeded == [acc EXCEPT !.seeds = Append(@, [name |-> positions[i].name,
                                                   reported |-> Len(acc.out)])]
    IN  IF Len(cluster) < 3 THEN seeded
        ELSE IF ~cluster[1].hasSign
        THEN [seeded EXCEPT !.raised = TRUE]
        ELSE [seeded EXCEPT
                 !.processed = @ \cup {cluster[c].name : c \in 1..Len(cluster)},
                 !.out = Append(@,
                     [type |-> "Stellium",
                      planets |-> [c \in 1..Len(cluster) |-> cluster[c].name],
                      sign |-> cluster[1].sign,
                      orb_range |-> angle_difference(
                          cluster[1].lon, cluster[Len(cluster)].lon)])]

\* The outer loop taking every position as a seed, processed or not.
RECURSIVE SeedLoopReseeding(_, _, _, _)
SeedLoopReseeding(acc, positions, orb, i) ==
    IF i > Len(positions) \/ acc.raised THEN acc
    ELSE SeedLoopReseeding(SeedStep(acc, positions, orb, i), positions, orb, i + 1)

\* The outer loop over i.
RECURSIVE SeedLoop(_, _, _, _)
SeedLoop(acc, positions, orb, i) ==
    IF i > Len(positions) \/ acc.raised THEN acc
    ELSE IF positions[i].name \in acc.processed
    THEN SeedLoop(acc, positions, orb, i + 1)
    ELSE SeedLoop(SeedStep(acc, positions, orb, i), positions, orb, i + 1)

\* The loops of detect_stelliums over the sorted positions, run to the end.
StelliumLoops(bodies, orb) ==
    SeedLoop([processed |-> {}, out |-> <<>>, raised |-> FALSE, seeds |-> <<>>],
             SortByLon(bodies), orb, 1)

\* Building `positions` raises on an entry without longitude; with two or
\* more entries a longitude that is no number raises in the sort or in the
\* first angle_difference.
detect_stelliums(bodies, orb) ==
    IF \E i \in 1..Len(bodies) : bodies[i].lonKind = "missing" THEN DetectorRaised
    ELSE IF Len(bodies) >= 2 /\ \E i \in 1..Len(bodies) : bodies[i].lonKind # "num"
    THEN DetectorRaised
    ELSE LET acc == StelliumLoops(bodies, orb)
         IN  IF acc.raised THEN DetectorRaised ELSE Detected(acc.out)

\* ------------------------------------------------- detect_aspect_patterns
PatternKeys == {"t_squares", "grand_trines", "grand_crosses", "yods", "stelliums"}

EmptyPatterns == [key \in PatternKeys |-> <<>>]

\* try: patterns[key] = detector(...) / except: log.  The entry keeps its
\* initial empty list when the detector raises.
Isolated(outcome) == IF outcome.raised THEN <<>> ELSE outcome.list

OnCriticalErrorPropagates == [status |-> "raised", value |-> EmptyPatterns]

\* The outermost except clause: log and return the all-empty dict.
OnCriticalError == Returned(EmptyPatterns)

\* A detector's exception reaching the outermost handler.
detect_aspect_patterns_unisolated(aspects, bodies, seed) ==
    IF aspects.kind # "list" \/ aspects.items = <<>> THEN OnCriticalError
    ELSE IF bodies.kind # "dict" \/ bodies.items = <<>> THEN OnCriticalError
    ELSE LET aspect_graph == build_aspect_graph(aspects)
             trines == detect_grand_trines(aspect_graph, bodies.items)
             crosses == detect_grand_crosses(aspect_graph, bodies.items)
             stelliums == detect_stelliums(bodies.items, DefaultStelliumOrb)
         IN  IF trines.raised \/ crosses.raised \/ stelliums.raised
             THEN OnCriticalError
             ELSE Returned(
                 ("t_squares" :> detect_t_squares(aspect_graph, seed)) @@
                 ("grand_trines" :> trines.list) @@
                 ("grand_crosses" :> crosses.list) @@
                 ("yods" :> detect_yods(aspect_graph, bodies.items)) @@
                 ("stelliums" :> stelliums.list))

detect_aspect_patterns(aspects, bodies, seed) ==
    IF aspects.kind # "list" \/ aspects.items = <<>> THEN OnCriticalError
    ELSE IF bodies.kind # "dict" \/ bodies.items = <<>> THEN OnCriticalError
    ELSE LET aspect_graph == build_aspect_graph(aspects)
         IN  Returned(
                 ("t_squares" :> detect_t_squares(aspect_graph, seed)) @@
                 ("grand_trines" :>
                     Isolated(detect_grand_trines(aspect_graph, bodies.items))) @@
                 ("grand_crosses" :>
                     Isolated(detect_grand_crosses(aspect_graph, bodies.items))) @@
                 ("yods" :> detect_yods(aspect_graph, bodies.items)) @@
                 ("stelliums" :>
                     Isolated(detect_stelliums(bodies.items, DefaultStelliumOrb))))

\* ------------------------------------------------------------------ houses
normalize_angle(deg) == deg % 360

\* One point of the chart as houses.py formats it: the longitude, its sign and
\* the degree within the sign.
HousePoint(deg) ==
    [ecliptic_longitude_deg |-> deg,
     sign |-> deg_to_sign_deg(deg),
     degree_in_sign |-> normalize_angle(deg) % 30]

HOUSE_SYSTEMS == {"P", "W", "A", "K", "C"}

\* The checks get_ascendant_mc_houses makes before it asks the ephemeris.
ValidHouseInputs(call) ==
    /\ call.t # "none"
    /\ (0 - 90) <= call.latitude /\ call.latitude <= 90
    /\ (0 - 180) <= call.longitude /\ call.longitude <= 180
    /\ call.house_system \in HOUSE_SYSTEMS

\* The houses dict built from the cusps swe.houses returned: houses 1 to 11 from
\* the entries at (0-based) indices 1 to 11, house 12 from index 11 again.
FormattedCusps(houses_long) ==
    LET upto == IF Len(houses_long) < 12 THEN Len(houses_long) ELSE 12
        first == [i \in 1..(upto - 1) |-> HousePoint(normalize_angle(houses_long[i + 1]))]
    IN  IF Len(houses_long) > 11
        THEN [i \in 1..12 |->
                 IF i \in DOMAIN first THEN first[i]
                 ELSE HousePoint(normalize_angle(houses_long[12]))]
        ELSE first

\* get_ascendant_mc_houses returns the tuple (ascendant, midheaven, houses);
\* swe is what swe.houses reports: [cusps, ascmc].
get_ascendant_mc_houses(call, swe) ==
    IF ~ValidHouseInputs(call) THEN Raised
    ELSE Returned(<<HousePoint(normalize_angle(swe.ascmc[1])),
                    HousePoint(normalize_angle(swe.ascmc[2])),
                    FormattedCusps(swe.cusps)>>)

\* A dict is a function of its keys; the helpers refuse an empty dict and one
\* without the longitude.
ValidAscendant(ascendant) ==
    /\ DOMAIN ascendant # {}
    /\ "ecliptic_longitude_deg" \in DOMAIN ascendant

calculate_whole_sign_houses(ascendant) ==
    IF ~ValidAscendant(ascendant) THEN Raised
    ELSE LET asc_deg == ascendant.ecliptic_longitude_deg
             asc_sign_start == (asc_deg \div 30) * 30
         IN  Returned([i \in 1..12 |->
                 HousePoint(normalize_angle(asc_sign_start + (i - 1) * 30))])

calculate_equal_houses(ascendant) ==
    IF ~ValidAscendant(ascendant) THEN Raised
    ELSE LET asc_deg == ascendant.ecliptic_longitude_deg
         IN  Returned([i \in 1..12 |->
                 HousePoint(normalize_angle(asc_deg + (i - 1) * 30))])

\* calculate_houses: for 'W' and 'A' without an ascendant it unpacks
\* "_, ascendant, _", which binds the second element of the tuple.
calculate_houses(call, swe) ==
    IF call.house_system \in {"W", "A"}
    THEN LET placidus == get_ascendant_mc_houses([call EXCEPT !.house_system = "P"], swe)
         IN  IF call.ascendant.kind = "none" /\ placidus.status = "raised" THEN Raised
             ELSE LET ascendant == IF call.ascendant.kind = "none"
                                   THEN placidus.value[2]
                                   ELSE call.ascendant.dict
                  IN  IF call.house_system = "W"
                      THEN calculate_whole_sign_houses(ascendant)
                      ELSE calculate_equal_houses(ascendant)
    ELSE LET found == get_ascendant_mc_houses(call, swe)
         IN  IF found.status = "raised" THEN Raised ELSE Returned(found.value[3])

\* ============================================================ state machine
VARIABLES
    bodies,        \* the chart's dict of bodies, as the position provider built it
    aspectsCall,   \* arguments of the compute_aspects call
    aspects,       \* its outcome: [status, value]
    patternsCall,  \* arguments of the detect_aspect_patterns call
    patterns,      \* its outcome: [status, value]
    angleCall,     \* arguments <<a, b>> of an angle_difference call
    angleResult,   \* its outcome: [status, value]
    strengthCall,  \* arguments of a calculate_aspect_strength call
    strengthResult, \* its outcome: [status, nan, value]
    graphCall,     \* the argument of a build_aspect_graph call
    graphResult,   \* its outcome: [status, value]
    charts,        \* the rows of table charts
    chartSeq,      \* the largest id table charts ever held (sqlite_sequence)
    readings,      \* the rows of table readings: [id, chart_id]
    readingSeq,    \* the largest id table readings ever held
    analyses,      \* the rows of compatibility_analyses: [id, chart1_id, chart2_id]
    analysisSeq,   \* the largest id compatibility_analyses ever held
    userPreferences, \* the rows of user_preferences: [id, key, value]
    prefSeq,       \* the largest id user_preferences ever held
    dbCall,        \* the last call on the database: <<method, arguments>>
    dbResult,      \* what it returned
    chartLog,      \* history: id -> arguments of the last save_chart that returned it
    deletedLog,    \* history: the returned ids delete_chart was called with since
    prefLog,       \* history: key -> value of the last save_preference of the key
    housesCall,    \* the last call into houses.py: [function, call, swe]
    housesResult   \* its outcome: [status, value]

strengthVars == <<strengthCall, strengthResult>>
graphVars == <<graphCall, graphResult>>
houseVars == <<housesCall, housesResult>>
dbVars == <<charts, chartSeq, readings, readingSeq, analyses, analysisSeq,
            userPreferences, prefSeq,
            dbCall, dbResult, chartLog, deletedLog, prefLog>>

vars == <<bodies, aspectsCall, aspects, patternsCall, patterns, angleCall, angleResult,
          strengthVars, graphVars, dbVars, houseVars>>

Idle(v) == [status |-> "idle", value |-> v]

NoneArg == [kind |-> "none", items |-> <<>>]
ListOf(items) == [kind |-> "list", items |-> items]
StrArg == [kind |-> "str", items |-> <<>>]

\* ---------------------------------------------------------------- database
\* Python values handed to json.dumps and JSON texts, as terms
\* <<tag, content>>.  Python: "dict" (a sequence of <<key, value>>), "list",
\* "tuple", "str", "int".  JSON: "object", "array", "string", "number".
PyStr(text) == <<"str", text>>
PyInt(n) == <<"int", n>>
PyList(items) == <<"list", items>>
PyDict(pairs) == <<"dict", pairs>>

\* json.dumps: a tuple and a list both become an array, a key that is an
\* int becomes a string.
RECURSIVE json_dumps(_)
json_dumps(v) ==
    CASE v[1] = "dict" ->
             <<"object", [i \in 1..Len(v[2]) |->
                 <<IF v[2][i][1][1] = "int" THEN ToString(v[2][i][1][2])
                   ELSE v[2][i][1][2],
                   json_dumps(v[2][i][2])>>]>>
      [] v[1] \in {"list", "tuple"} ->
             <<"array", [i \in 1..Len(v[2]) |-> json_dumps(v[2][i])]>>
      [] v[1] = "str" -> <<"string", v[2]>>
      [] OTHER -> <<"number", v[2]>>

\* json.loads: an object becomes a dict with str keys, an array a list.
RECURSIVE json_loads(_)
json_loads(t) ==
    CASE t[1] = "object" ->
             PyDict([i \in 1..Len(t[2]) |-> <<PyStr(t[2][i][1]), json_loads(t[2][i][2])>>])
      [] t[1] = "array" -> PyList([i \in 1..Len(t[2]) |-> json_loads(t[2][i])])
      [] t[1] = "string" -> PyStr(t[2])
      [] OTHER -> PyInt(t[2])

\* The row save_chart inserts: the AUTOINCREMENT id and the eight arguments,
\* chart_data as JSON text.
ChartRow(id, a) ==
    [id |-> id, name |-> a.name, birth_date |-> a.birth_date,
     birth_time |-> a.birth_time, timezone |-> a.timezone,
     latitude |-> a.latitude, longitude |-> a.longitude,
     house_system |-> a.house_system, chart_data |-> json_dumps(a.chart_data)]

\* SELECT id FROM charts WHERE name = ? AND birth_date = ? AND ...
SameChart(row, a) ==
    /\ row.name = a.name /\ row.birth_date = a.birth_date
    /\ row.birth_time = a.birth_time /\ row.timezone = a.timezone
    /\ row.latitude = a.latitude /\ row.longitude = a.longitude

\* fetchone(): the row with the least id.
FirstRow(rows) == CHOOSE r \in rows : \A q \in rows : r.id <= q.id

\* A cursor.lastrowid of an AUTOINCREMENT table: one more than the largest
\* id the table ever held.
NextId(seq) == seq + 1

\* save_chart whose UPDATE of an existing row writes nothing.
save_chart_keeping_stored_data(table, seq, a) ==
    LET existing == {row \in table : SameChart(row, a)}
    IN  IF existing # {}
        THEN [table |-> table, seq |-> seq, id |-> FirstRow(existing).id]
        ELSE [table |-> table \cup {ChartRow(NextId(seq), a)},
              seq |-> NextId(seq), id |-> NextId(seq)]

\* save_chart: the table after the call and the id returned.
save_chart(table, seq, a) ==
    LET existing == {row \in table : SameChart(row, a)}
    IN  IF existing # {}
        THEN LET old == FirstRow(existing)
             IN  [table |-> (table \ {old})
                        \cup {[old EXCEPT !.chart_data = json_dumps(a.chart_data)]},
                  seq |-> seq, id |-> old.id]
        ELSE [table |-> table \cup {ChartRow(NextId(seq), a)},
              seq |-> NextId(seq), id |-> NextId(seq)]

\* What get_chart returns: None, or dict(row) with chart_data parsed.
NoChart == [found |-> FALSE, row |-> <<>>]
get_chart(table, chart_id) ==
    LET hit == {row \in table : row.id = chart_id}
    IN  IF hit = {} THEN NoChart
        ELSE LET row == FirstRow(hit)
             IN  [found |-> TRUE,
                  row |-> [row EXCEPT !.chart_data = json_loads(row.chart_data)]]

\* save_preference as a plain INSERT that keeps the row of the key.
save_preference_keeping_old_row(table, seq, key, value) ==
    [table |-> table \cup {[id |-> NextId(seq), key |-> key, value |-> value]},
     seq |-> NextId(seq)]

\* INSERT OR REPLACE INTO user_preferences (key, value, ...): the row that
\* holds the key, if any, is deleted and a row with a new id inserted.
save_preference(table, seq, key, value) ==
    [table |-> {row \in table : row.key # key}
               \cup {[id |-> NextId(seq), key |-> key, value |-> value]},
     seq |-> NextId(seq)]

\* row['value'] if row else default: the stored text, or the default,
\* which may be None.
PyNone == <<"none", "">>
get_preference(table, key, default) ==
    LET hit == {row \in table : row.key = key}
    IN  IF hit = {} THEN default ELSE PyStr(FirstRow(hit).value)

\* ------------------------------------------------ arguments callers pass
\* Orb tables other than the default: overlapping windows, a table that
\* lists one kind only, and one with a zero orb.
WideOrbs == [asp \in SeqSet(AspectOrder) |-> 30]
PartialOrbs == ("conjunction" :> 10)
ZeroOrbs == ("conjunction" :> 0) @@ ("semi-sextile" :> 30) @@ ("square" :> 0)

OrbArgs ==
    {NoOrbs} \cup {[kind |-> "dict", table |-> t] :
                      t \in {WideOrbs, PartialOrbs, ZeroOrbs}}

\* Entry sets a defect is applied to: the first entry, or every entry.
DefectSpans(items) == {{1}, 1..Len(items)}

WithoutSign(items, span) ==
    [i \in 1..Len(items) |->
        IF i \in span THEN [items[i] EXCEPT !.hasSign = FALSE] ELSE items[i]]

WithoutLongitude(items, span) ==
    [i \in 1..Len(items) |->
        IF i \in span THEN [items[i] EXCEPT !.lonKind = "missing"] ELSE items[i]]

WithStringLongitude(items, span) ==
    [i \in 1..Len(items) |->
        IF i \in span THEN [items[i] EXCEPT !.lonKind = "str"] ELSE items[i]]

\* Dicts whose entries lack the longitude or hold one that is no number.
BadLongitudes(items) ==
    IF items = <<>> THEN {}
    ELSE UNION {{DictOf(WithoutLongitude(items, sp)),
                 DictOf(WithStringLongitude(items, sp))} : sp \in DefectSpans(items)}

ImpairedBodies(items) ==
    IF items = <<>> THEN {}
    ELSE BadLongitudes(items)
         \cup {DictOf(WithoutSign(items, sp)) : sp \in DefectSpans(items)}

NamesOf(items) == {items[i].name : i \in 1..Len(items)}

\* include_points as calculate_chart passes it (every key of the dict), a
\* list naming some bodies and one not in the chart, an empty list, a set.
PointsArgs(items) ==
    {[kind |-> "list", names |-> NamesOf(items)],
     [kind |-> "list", names |-> {"sun", "mars", "venus", "pluto"}],
     [kind |-> "list", names |-> {}],
     [kind |-> "set", names |-> {"sun", "moon", "mars"}]}

ComputeArgs(items) ==
    {[bodies |-> DictOf(items), aspect_orbs |-> o, include_points |-> NoPoints] :
        o \in OrbArgs}
    \cup {[bodies |-> DictOf(items), aspect_orbs |-> NoOrbs, include_points |-> p] :
        p \in PointsArgs(items)}
    \cup {[bodies |-> b, aspect_orbs |-> NoOrbs, include_points |-> NoPoints] :
        b \in BadLongitudes(items) \cup {NoneArg, ListOf(items)}}
    \cup {[bodies |-> DictOf(WithoutLongitude(items, {1})), aspect_orbs |-> NoOrbs,
           include_points |-> [kind |-> "list", names |-> {"moon", "mars"}]],
          [bodies |-> DictOf(items), aspect_orbs |-> [kind |-> "list", table |-> ASPECT_ORBS],
           include_points |-> NoPoints]}

\* Malformed aspect records build_aspect_graph guards against.
RecordDefects == {"no_aspect_key", "no_between_key", "not_str", "one_body"}

Malformed(list, r, defect) == [list EXCEPT ![r].defect = defect]

TamperedAspects(list) ==
    {NoneArg, StrArg}
    \cup {ListOf(Malformed(list, r, d)) :
            r \in {1, Len(list)} \cap (1..Len(list)), d \in RecordDefects}

PlainCall(call, items) ==
    /\ call.bodies = DictOf(items)
    /\ call.aspect_orbs = NoOrbs
    /\ call.include_points = NoPoints

\* detect_aspect_patterns is given the list compute_aspects returned and the
\* bodies it was computed from (calculate_chart); after a call with default
\* orbs and no filter also a list or a bodies dict the caller has damaged.
DetectArgs(call, result, items) ==
    {[aspects |-> ListOf(result), bodies |-> call.bodies]}
    \cup (IF PlainCall(call, items)
          THEN {[aspects |-> a, bodies |-> call.bodies] : a \in TamperedAspects(result)}
               \cup {[aspects |-> ListOf(result), bodies |-> b] :
                       b \in ImpairedBodies(call.bodies.items) \cup {NoneArg, ListOf(<<>>)}}
          ELSE {})

\* Orbs and kinds handed to calculate_aspect_strength: ints below zero, up
\* to and beyond the largest orb, the floats NaN and infinity, a str and
\* None; the eight kinds, a str that names none, None and an int.
OrbValues ==
    {IntArg(n) : n \in (0 - MaxOrb - 1)..(MaxOrb + 1)}
    \cup {NanArg, InfArg(1), InfArg(0 - 1),
          [kind |-> "str", val |-> 0], [kind |-> "none", val |-> 0]}

MaxOrbValues ==
    {IntArg(n) : n \in (0 - 1)..MaxOrb}
    \cup {NanArg, InfArg(1), InfArg(0 - 1),
          [kind |-> "str", val |-> 0], [kind |-> "none", val |-> 0]}

KindValues ==
    {[kind |-> "str", name |-> k] : k \in SeqSet(AspectOrder) \cup {"unknown"}}
    \cup {[kind |-> "none", name |-> ""], [kind |-> "int", name |-> ""]}

NoStrengthCall == <<IntArg(0), IntArg(1), [kind |-> "str", name |-> "conjunction"]>>
StrengthIdle == [status |-> "idle", nan |-> FALSE, value |-> 0]

\* The database after create_tables on a new file, nothing called yet.
NoFunction == [x \in {} |-> x]
DbCreated ==
    /\ charts = {} /\ chartSeq = 0
    /\ readings = {} /\ readingSeq = 0
    /\ analyses = {} /\ analysisSeq = 0
    /\ userPreferences = {} /\ prefSeq = 0
    /\ dbCall = <<"none">> /\ dbResult = <<>>
    /\ chartLog = NoFunction /\ deletedLog = {} /\ prefLog = NoFunction

\* chart_data dicts: the fixture of test_save_and_get_chart and a chart
\* with an aspect list.
ChartDataValues ==
    {PyDict(<< <<PyStr("bodies"),
                 PyDict(<< <<PyStr("sun"),
                              PyDict(<< <<PyStr("sign"), PyStr("Aries")>>,
                                        <<PyStr("degree"), PyInt(10)>> >>)>> >>)>> >>),
     PyDict(<< <<PyStr("aspects"),
                 PyList(<< PyDict(<< <<PyStr("between"),
                                       PyList(<<PyStr("sun"), PyStr("moon")>>)>> >>) >>)>> >>)}

\* Arguments of save_chart: two people, latitude and longitude in whole
\* degrees; the first person is saved with either house system and either
\* chart, the second with either chart.
SaveChartArgs ==
    {a \in [name : {"Test Person", "Other Person"}, birth_date : {"1998-03-03"},
             birth_time : {"14:10:00"}, timezone : {"Pacific/Auckland"},
             latitude : {0 - 37}, longitude : {175},
             house_system : {"P", "W"}, chart_data : ChartDataValues] :
        a.name = "Other Person" => a.house_system = "P"}

PrefKeys == {"theme", "language"}
PrefValues == {"dark", "light"}
PrefDefaults == {PyNone, PyStr("default")}

\* What swe.houses may report for a call: the Ascendant and the Midheaven in
\* ascmc, and twelve cusps running through them (house 1 at the Ascendant,
\* house 10 at the Midheaven, each quadrant cut in three).
AscendantValues == {15, 45, 359}
MidheavenValues == {0, 285, 330}

QuadrantCusps(asc, mc) ==
    LET ic == (mc + 180) % 360
        dsc == (asc + 180) % 360
        Cut(from, to, k) == (from + (k * ((to - from) % 360)) \div 3) % 360
    IN  <<asc, Cut(asc, ic, 1), Cut(asc, ic, 2),
          ic, Cut(ic, dsc, 1), Cut(ic, dsc, 2),
          dsc, Cut(dsc, mc, 1), Cut(dsc, mc, 2),
          mc, Cut(mc, asc, 1), Cut(mc, asc, 2)>>

SwissEphemeris ==
    {[cusps |-> QuadrantCusps(asc, mc), ascmc |-> <<asc, mc>>] :
        asc \in AscendantValues, mc \in MidheavenValues}

\* The ascendant argument: None, a formatted point, a dict without the
\* longitude, or an empty dict.
NoAscendant == [kind |-> "none", dict |-> NoFunction]
AscendantArgs ==
    {NoAscendant}
    \cup {[kind |-> "dict", dict |-> HousePoint(d)] : d \in {45, 200}}
    \cup {[kind |-> "dict", dict |-> [sign |-> "Taurus"]],
          [kind |-> "dict", dict |-> NoFunction]}

HouseCalls ==
    [t : {"time", "none"}, latitude : {0 - 37, 91}, longitude : {175},
     house_system : HOUSE_SYSTEMS \cup {"X"}, ascendant : AscendantArgs]

NoHousesCall ==
    [function |-> "",
     call |-> [t |-> "time", latitude |-> 0 - 37, longitude |-> 175,
               house_system |-> "P", ascendant |-> NoAscendant],
     swe |-> [cusps |-> QuadrantCusps(15, 285), ascmc |-> <<15, 285>>]]

HousesIdle ==
    /\ housesCall = NoHousesCall
    /\ housesResult = Idle(<<>>)

\* ------------------------------------------------------------------ actions
Init ==
    /\ bodies = <<>>
    /\ aspectsCall = [bodies |-> DictOf(<<>>), aspect_orbs |-> NoOrbs,
                      include_points |-> NoPoints]
    /\ aspects = Idle(<<>>)
    /\ patternsCall = [aspects |-> NoneArg, bodies |-> DictOf(<<>>)]
    /\ patterns = Idle(EmptyPatterns)
    /\ angleCall = <<0, 0>>
    /\ angleResult = Idle(0)
    /\ strengthCall = NoStrengthCall
    /\ strengthResult = StrengthIdle
    /\ graphCall = NoneArg
    /\ graphResult = Idle(EmptyGraph)
    /\ DbCreated
    /\ HousesIdle

\* The position provider adds the next body of the chart.
AddBody ==
    /\ aspects.status = "idle"
    /\ Len(bodies) < MaxBodies
    /\ Len(bodies) < Len(BodyOrder)
    /\ \E lon \in Ephemeris[Len(bodies) + 1] :
           bodies' = Append(bodies, Body(BodyOrder[Len(bodies) + 1], lon))
    /\ UNCHANGED <<aspectsCall, aspects, patternsCall, patterns, angleCall, angleResult,
                   strengthVars, graphVars, dbVars, houseVars>>

ComputeAspects ==
    /\ aspects.status = "idle"
    /\ \E args \in ComputeArgs(bodies) :
           /\ aspectsCall' = args
           /\ aspects' = compute_aspects(args.bodies, args.aspect_orbs, args.include_points)
    /\ UNCHANGED <<bodies, patternsCall, patterns, angleCall, angleResult,
                   strengthVars, graphVars, dbVars, houseVars>>

DetectAspectPatterns ==
    /\ aspects.status = "returned"
    /\ patterns.status = "idle"
    /\ \E args \in DetectArgs(aspectsCall, aspects.value, bodies) : \E seed \in BOOLEAN :
           /\ patternsCall' = args
           /\ patterns' = detect_aspect_patterns(args.aspects, args.bodies, seed)
    /\ UNCHANGED <<bodies, aspectsCall, aspects, angleCall, angleResult,
                   strengthVars, graphVars, dbVars, houseVars>>

Next == AddBody \/ ComputeAspects \/ DetectAspectPatterns

Spec == Init /\ [][Next]_vars

\* angle_difference on its own.
InitAngle ==
    /\ bodies = <<>>
    /\ aspectsCall = [bodies |-> DictOf(<<>>), aspect_orbs |-> NoOrbs,
                      include_points |-> NoPoints]
    /\ aspects = Idle(<<>>)
    /\ patternsCall = [aspects |-> NoneArg, bodies |-> DictOf(<<>>)]
    /\ patterns = Idle(EmptyPatterns)
    /\ angleCall \in AngleInputs \X AngleInputs
    /\ angleResult = Idle(0)
    /\ strengthCall = NoStrengthCall
    /\ strengthResult = StrengthIdle
    /\ graphCall = NoneArg
    /\ graphResult = Idle(EmptyGraph)
    /\ DbCreated
    /\ HousesIdle

AngleDifference ==
    /\ angleResult.status = "idle"
    /\ angleResult' = Returned(angle_difference(angleCall[1], angleCall[2]))
    /\ UNCHANGED <<bodies, aspectsCall, aspects, patternsCall, patterns, angleCall,
                   strengthVars, graphVars, dbVars, houseVars>>

NextAngle == AngleDifference

SpecAngle == InitAngle /\ [][NextAngle]_vars

\* build_aspect_graph on its own, on the list compute_aspects returned;
\* after a call with default orbs and no filter also on an empty list, on
\* what is no list and on lists with one or two malformed records.
GraphArgs(call, result, items) ==
    {ListOf(result)}
    \cup (IF PlainCall(call, items)
          THEN {ListOf(<<>>)} \cup TamperedAspects(result)
               \cup {ListOf(Malformed(Malformed(result, 1, d1), Len(result), d2)) :
                       d1 \in IF Len(result) >= 2 THEN RecordDefects ELSE {},
                       d2 \in {"not_str", "one_body"}}
          ELSE {})

BuildAspectGraph ==
    /\ aspects.status = "returned"
    /\ graphResult.status = "idle"
    /\ \E arg \in GraphArgs(aspectsCall, aspects.value, bodies) :
           /\ graphCall' = arg
           /\ graphResult' = Returned(build_aspect_graph(arg))
    /\ UNCHANGED <<bodies, aspectsCall, aspects, patternsCall, patterns, angleCall,
                   angleResult, strengthVars, dbVars, houseVars>>

NextGraph == AddBody \/ ComputeAspects \/ BuildAspectGraph

SpecGraph == Init /\ [][NextGraph]_vars

\* The database on its own.
NothingComputed ==
    /\ bodies = <<>>
    /\ aspectsCall = [bodies |-> DictOf(<<>>), aspect_orbs |-> NoOrbs,
                      include_points |-> NoPoints]
    /\ aspects = Idle(<<>>)
    /\ patternsCall = [aspects |-> NoneArg, bodies |-> DictOf(<<>>)]
    /\ patterns = Idle(EmptyPatterns)
    /\ angleCall = <<0, 0>>
    /\ angleResult = Idle(0)
    /\ strengthCall = NoStrengthCall
    /\ strengthResult = StrengthIdle
    /\ graphCall = NoneArg
    /\ graphResult = Idle(EmptyGraph)

computeVars == <<bodies, aspectsCall, aspects, patternsCall, patterns, angleCall,
                 angleResult, strengthVars, graphVars>>

InitDb == NothingComputed /\ DbCreated /\ HousesIdle

Inserted == chartSeq + readingSeq + analysisSeq + prefSeq

\* Ids a caller passes: every id handed out so far, the next one, and 0.
ChartIds == 0..NextId(chartSeq)

SaveChart ==
    /\ \E a \in SaveChartArgs :
           LET r == save_chart(charts, chartSeq, a)
           IN  /\ Inserted - chartSeq + r.seq <= MaxRows
               /\ charts' = r.table
               /\ chartSeq' = r.seq
               /\ dbCall' = <<"save_chart", a>>
               /\ dbResult' = r.id
               /\ chartLog' = [i \in DOMAIN chartLog \cup {r.id} |->
                                  IF i = r.id THEN a ELSE chartLog[i]]
               /\ deletedLog' = deletedLog \ {r.id}
    /\ UNCHANGED <<readings, readingSeq, analyses, analysisSeq, userPreferences,
                   prefSeq, prefLog, computeVars, houseVars>>

GetChart ==
    /\ \E chart_id \in ChartIds :
           /\ dbCall' = <<"get_chart", chart_id>>
           /\ dbResult' = get_chart(charts, chart_id)
    /\ UNCHANGED <<charts, chartSeq, readings, readingSeq, analyses, analysisSeq,
                   userPreferences, prefSeq, chartLog, deletedLog, prefLog,
                   computeVars, houseVars>>

\* The rows that reference the chart go first, then the chart's row.
DeleteChart ==
    /\ \E chart_id \in ChartIds :
           /\ readings' = {row \in readings : row.chart_id # chart_id}
           /\ analyses' = {row \in analyses :
                               row.chart1_id # chart_id /\ row.chart2_id # chart_id}
           /\ charts' = {row \in charts : row.id # chart_id}
           /\ dbCall' = <<"delete_chart", chart_id>>
           /\ dbResult' = TRUE
           /\ deletedLog' = deletedLog \cup ({chart_id} \cap DOMAIN chartLog)
    /\ UNCHANGED <<chartSeq, readingSeq, analysisSeq, userPreferences, prefSeq,
                   chartLog, prefLog, computeVars, houseVars>>

\* connect() leaves sqlite's foreign-key enforcement off: any chart_id is
\* accepted.
SaveReading ==
    /\ Inserted < MaxRows
    /\ \E chart_id \in ChartIds :
           LET id == NextId(readingSeq)
           IN  /\ readings' = readings \cup {[id |-> id, chart_id |-> chart_id]}
               /\ readingSeq' = id
               /\ dbCall' = <<"save_reading", chart_id>>
               /\ dbResult' = id
    /\ UNCHANGED <<charts, chartSeq, analyses, analysisSeq, userPreferences, prefSeq,
                   chartLog, deletedLog, prefLog, computeVars, houseVars>>

SaveCompatibilityAnalysis ==
    /\ Inserted < MaxRows
    /\ \E chart1_id \in ChartIds : \E chart2_id \in ChartIds :
           LET id == NextId(analysisSeq)
           IN  /\ analyses' = analyses \cup {[id |-> id, chart1_id |-> chart1_id,
                                                chart2_id |-> chart2_id]}
               /\ analysisSeq' = id
               /\ dbCall' = <<"save_compatibility_analysis", <<chart1_id, chart2_id>> >>
               /\ dbResult' = id
    /\ UNCHANGED <<charts, chartSeq, readings, readingSeq, userPreferences, prefSeq,
                   chartLog, deletedLog, prefLog, computeVars, houseVars>>

SavePreference ==
    /\ Inserted < MaxRows
    /\ \E key \in PrefKeys : \E value \in PrefValues :
           LET r == save_preference(userPreferences, prefSeq, key, value)
           IN  /\ userPreferences' = r.table
               /\ prefSeq' = r.seq
               /\ dbCall' = <<"save_preference", <<key, value>> >>
               /\ dbResult' = PyNone
               /\ prefLog' = [k \in DOMAIN prefLog \cup {key} |->
                                 IF k = key THEN value ELSE prefLog[k]]
    /\ UNCHANGED <<charts, chartSeq, readings, readingSeq, analyses, analysisSeq,
                   chartLog, deletedLog, computeVars, houseVars>>

GetPreference ==
    /\ \E key \in PrefKeys : \E default \in PrefDefaults :
           /\ dbCall' = <<"get_preference", <<key, default>> >>
           /\ dbResult' = get_preference(userPreferences, key, default)
    /\ UNCHANGED <<charts, chartSeq, readings, readingSeq, analyses, analysisSeq,
                   userPreferences, prefSeq, chartLog, deletedLog, prefLog,
                   computeVars, houseVars>>

NextDb ==
    \/ SaveChart \/ GetChart \/ DeleteChart \/ SaveReading
    \/ SaveCompatibilityAnalysis \/ SavePreference \/ GetPreference

SpecDb == InitDb /\ [][NextDb]_vars

\* ------------------------------------------------------ the houses module
InitHouses == NothingComputed /\ DbCreated /\ HousesIdle

GetAscendantMcHouses ==
    \E call \in HouseCalls, swe \in SwissEphemeris :
        /\ call.ascendant = NoAscendant
        /\ housesCall' = [function |-> "get_ascendant_mc_houses",
                          call |-> call, swe |-> swe]
        /\ housesResult' = get_ascendant_mc_houses(call, swe)
        /\ UNCHANGED <<computeVars, dbVars>>

CalculateWholeSignHouses ==
    \E ascendant \in AscendantArgs :
        /\ housesCall' = [NoHousesCall EXCEPT
                              !.function = "calculate_whole_sign_houses",
                              !.call.ascendant = ascendant]
        /\ housesResult' = calculate_whole_sign_houses(ascendant.dict)
        /\ UNCHANGED <<computeVars, dbVars>>

CalculateEqualHouses ==
    \E ascendant \in AscendantArgs :
        /\ housesCall' = [NoHousesCall EXCEPT
                              !.function = "calculate_equal_houses",
                              !.call.ascendant = ascendant]
        /\ housesResult' = calculate_equal_houses(ascendant.dict)
        /\ UNCHANGED <<computeVars, dbVars>>

CalculateHouses ==
    \E call \in HouseCalls, swe \in SwissEphemeris :
        /\ housesCall' = [function |-> "calculate_houses",
                          call |-> call, swe |-> swe]
        /\ housesResult' = calculate_houses(call, swe)
        /\ UNCHANGED <<computeVars, dbVars>>

NextHouses ==
    \/ GetAscendantMcHouses
    \/ CalculateWholeSignHouses
    \/ CalculateEqualHouses
    \/ CalculateHouses

SpecHouses == InitHouses /\ [][NextHouses]_vars

\* calculate_aspect_strength on its own.
InitStrength ==
    /\ bodies = <<>>
    /\ aspectsCall = [bodies |-> DictOf(<<>>), aspect_orbs |-> NoOrbs,
                      include_points |-> NoPoints]
    /\ aspects = Idle(<<>>)
    /\ patternsCall = [aspects |-> NoneArg, bodies |-> DictOf(<<>>)]
    /\ patterns = Idle(EmptyPatterns)
    /\ angleCall = <<0, 0>>
    /\ angleResult = Idle(0)
    /\ strengthCall \in OrbValues \X MaxOrbValues \X KindValues
    /\ strengthResult = StrengthIdle
    /\ graphCall = NoneArg
    /\ graphResult = Idle(EmptyGraph)
    /\ DbCreated
    /\ HousesIdle

CalculateAspectStrength ==
    /\ strengthResult.status = "idle"
    /\ strengthResult' \in calculate_aspect_strength_call(
                               strengthCall[1], strengthCall[2], strengthCall[3])
    /\ UNCHANGED <<bodies, aspectsCall, aspects, patternsCall, patterns, angleCall,
                   angleResult, strengthCall, graphVars, dbVars, houseVars>>

NextStrength == CalculateAspectStrength

SpecStrength == InitStrength /\ [][NextStrength]_vars

\* ================================================================== claims
\* What the formulas below read of a call.
IsList(v) == DOMAIN v = 1..Len(v)

\* The call reached the detectors: a non-empty list and a non-empty dict.
ValidDetectCall ==
    /\ patterns.status = "returned"
    /\ patternsCall.aspects.kind = "list" /\ patternsCall.aspects.items # <<>>
    /\ patternsCall.bodies.kind = "dict" /\ patternsCall.bodies.items # <<>>

\* C1: detect_aspect_patterns never raises, whatever it is given (None, an
\* empty or wrongly typed list or dict, malformed records, bodies on which a
\* detector fails), and returns a dict with exactly the five keys t_squares,
\* grand_trines, grand_crosses, yods and stelliums, each mapped to a list.
PatternsAlwaysReturned ==
    patterns.status # "idle" =>
        /\ patterns.status = "returned"
        /\ DOMAIN patterns.value = PatternKeys
        /\ \A key \in PatternKeys : IsList(patterns.value[key])

\* A call given a string in place of the aspect list has returned.
WronglyTypedListReturned ==
    /\ patterns.status = "returned"
    /\ patternsCall.aspects.kind = "str"
    /\ patternsCall.bodies.kind = "dict"
    /\ Len(patternsCall.bodies.items) >= 3

\* C2: the list compute_aspects returns holds at most one record per
\* unordered pair of body names, for every bodies dict, orb table and filter.
PairOf(record) == {record.between[1], record.between[2]}

AtMostOneRecordPerPair ==
    aspects.status = "returned" =>
        \A i \in 1..Len(aspects.value) : \A j \in 1..Len(aspects.value) :
            i # j => PairOf(aspects.value[i]) # PairOf(aspects.value[j])

\* Several pairs were recorded under an orb table whose windows overlap.
OverlappingOrbsRecorded ==
    /\ aspects.status = "returned"
    /\ aspectsCall.aspect_orbs.kind = "dict"
    /\ aspectsCall.aspect_orbs.table = WideOrbs
    /\ Len(aspects.value) >= 3

\* C3: for every pair of candidate bodies with numeric longitudes and every
\* orb table with positive orbs, compute_aspects records for the pair the
\* first kind, in the order conjunction, semi-sextile, semi-square, sextile,
\* square, trine, quincunx, opposition, with |separation - exact angle| <= orb,
\* and records nothing for the pair when no kind matches.
Separation(lon1, lon2) ==
    LET d == Abs(lon1 - lon2)
    IN  IF d <= 360 - d THEN d ELSE 360 - d

EffectiveOrbs(call) ==
    IF call.aspect_orbs.kind = "none" THEN ASPECT_ORBS ELSE call.aspect_orbs.table

PositiveOrbs(orbs) ==
    \A k \in 1..Len(AspectOrder) : OrbGet(orbs, AspectOrder[k]) > 0

MatchingKinds(sep, orbs) ==
    {k \in 1..Len(AspectOrder) :
        Abs(sep - ASPECTS[AspectOrder[k]]) <= OrbGet(orbs, AspectOrder[k])}

IsCandidate(call, body) ==
    \/ call.include_points.kind = "none"
    \/ call.include_points.names = {}
    \/ body.name \in call.include_points.names

RecordsOf(list, name1, name2) ==
    {r \in 1..Len(list) : PairOf(list[r]) = {name1, name2}}

FirstMatchingKindFor(call, list, b1, b2) ==
    LET hits == MatchingKinds(Separation(b1.lon, b2.lon), EffectiveOrbs(call))
        recs == RecordsOf(list, b1.name, b2.name)
    IN  IF hits = {} THEN recs = {}
        ELSE /\ recs # {}
             /\ \A r \in recs :
                    list[r].aspect = AspectOrder[CHOOSE k \in hits : \A h \in hits : k <= h]

FirstMatchingKindRecorded ==
    (aspects.status = "returned" /\ PositiveOrbs(EffectiveOrbs(aspectsCall))) =>
        LET items == aspectsCall.bodies.items
        IN  \A i \in 1..Len(items) : \A j \in 1..Len(items) :
                (/\ i < j
                 /\ items[i].lonKind = "num" /\ items[j].lonKind = "num"
                 /\ IsCandidate(aspectsCall, items[i])
                 /\ IsCandidate(aspectsCall, items[j]))
                => FirstMatchingKindFor(aspectsCall, aspects.value, items[i], items[j])

\* Under overlapping windows a separation of 90 degrees is in the windows of
\* sextile, square and trine, and sextile was recorded.
FirstOfOverlappingKinds ==
    /\ aspects.status = "returned"
    /\ aspectsCall.aspect_orbs.kind = "dict"
    /\ aspectsCall.aspect_orbs.table = WideOrbs
    /\ \E r \in 1..Len(aspects.value) :
           /\ aspects.value[r].angle = 90
           /\ aspects.value[r].aspect = "sextile"
           /\ Cardinality(MatchingKinds(90, WideOrbs)) >= 3

\* The aspect list handed to detect_aspect_patterns, read as relations
\* between bodies: a well-formed record of the kind between the two names.
Related(kind, name1, name2) ==
    /\ name1 # name2
    /\ patternsCall.aspects.kind = "list"
    /\ \E r \in 1..Len(patternsCall.aspects.items) :
           /\ patternsCall.aspects.items[r].defect = "none"
           /\ patternsCall.aspects.items[r].aspect = kind
           /\ PairOf(patternsCall.aspects.items[r]) = {name1, name2}

AllNames == SeqSet(BodyOrder)

NumericBodies ==
    \A i \in 1..Len(patternsCall.bodies.items) :
        patternsCall.bodies.items[i].lonKind = "num"

\* detect_aspect_patterns was given the list compute_aspects returned for
\* the same bodies.
ListFromSameBodies ==
    /\ ValidDetectCall
    /\ patternsCall.aspects = ListOf(aspects.value)
    /\ patternsCall.bodies = aspectsCall.bodies

\* C4: when the aspect list comes from compute_aspects on the same bodies
\* and a body F is quincunx to two bodies P1 and P2 that are sextile to each
\* other (F at 0, P1 at 150, P2 at 210), the yods list holds a record with
\* focal_planet F and base planets P1 and P2.
YodReported(focal, p1, p2) ==
    \E y \in 1..Len(patterns.value["yods"]) :
        /\ patterns.value["yods"][y].focal_planet = focal
        /\ SeqSet(patterns.value["yods"][y].base_planets) = {p1, p2}

EveryYodReported ==
    ListFromSameBodies =>
        \A focal \in AllNames : \A p1 \in AllNames : \A p2 \in AllNames :
            (/\ p1 # p2
             /\ Related("quincunx", focal, p1)
             /\ Related("quincunx", focal, p2)
             /\ Related("sextile", p1, p2))
            => YodReported(focal, p1, p2)

\* C5: T-square detection over the whitelisted bodies reports exactly one
\* record for each unordered triple {F, A, B} in which A and B are in
\* opposition and F is square to both, with focal_planet F, and no other
\* triple; bodies at 0, 90 and 180 degrees yield exactly one T-square, whose
\* focal planet is the body at 90.
IsTSquare(focal, a, b) ==
    /\ {focal, a, b} \subseteq valid_bodies
    /\ Related("opposition", a, b)
    /\ Related("square", focal, a)
    /\ Related("square", focal, b)

TSquareRecords(names) ==
    {t \in 1..Len(patterns.value["t_squares"]) :
        {patterns.value["t_squares"][t].focal_planet}
            \cup SeqSet(patterns.value["t_squares"][t].opposition) = names}

TSquaresExactlyOnce ==
    ValidDetectCall =>
        /\ \A t \in 1..Len(patterns.value["t_squares"]) :
               LET rec == patterns.value["t_squares"][t]
               IN  IsTSquare(rec.focal_planet, rec.opposition[1], rec.opposition[2])
        /\ \A focal \in AllNames : \A a \in AllNames : \A b \in AllNames :
               IsTSquare(focal, a, b) =>
                   /\ Cardinality(TSquareRecords({focal, a, b})) = 1
                   /\ \A t \in TSquareRecords({focal, a, b}) :
                          patterns.value["t_squares"][t].focal_planet = focal

\* The chart sun 0, moon 90, mars 180 gave one T-square with focal moon.
TSquareAt0And90And180 ==
    /\ ListFromSameBodies
    /\ [i \in 1..Len(bodies) |-> bodies[i].lon] = <<0, 90, 180>>
    /\ patternsCall.bodies = DictOf(bodies)
    /\ Len(patterns.value["t_squares"]) = 1
    /\ patterns.value["t_squares"][1].focal_planet = "moon"

\* C6: Grand Trine detection reports an unordered triple of bodies if and
\* only if all three of its pairs are trine edges, and reports it once;
\* bodies at 0, 120 and 240 degrees yield exactly one Grand Trine that holds
\* all three.  (For bodies that all carry a numeric longitude.)
BodyNames == {patternsCall.bodies.items[i].name : i \in 1..Len(patternsCall.bodies.items)}

TrineRecords(names) ==
    {t \in 1..Len(patterns.value["grand_trines"]) :
        SeqSet(patterns.value["grand_trines"][t].planets) = names}

GrandTrinesExactlyOnce ==
    (ValidDetectCall /\ NumericBodies) =>
        /\ \A t \in 1..Len(patterns.value["grand_trines"]) :
               /\ SeqSet(patterns.value["grand_trines"][t].planets) \subseteq BodyNames
               /\ Cardinality(SeqSet(patterns.value["grand_trines"][t].planets)) = 3
        /\ \A triple \in SUBSET BodyNames :
               Cardinality(triple) = 3 =>
                   LET all_trine == \A x \in triple : \A y \in triple :
                                        x # y => Related("trine", x, y)
                   IN  Cardinality(TrineRecords(triple)) = IF all_trine THEN 1 ELSE 0

\* The chart sun 0, moon 120, mars 240 gave one Grand Trine of all three.
GrandTrineAt0And120And240 ==
    /\ ListFromSameBodies
    /\ [i \in 1..Len(bodies) |-> bodies[i].lon] = <<0, 120, 240>>
    /\ patternsCall.bodies = DictOf(bodies)
    /\ Len(patterns.value["grand_trines"]) = 1
    /\ SeqSet(patterns.value["grand_trines"][1].planets) = {"sun", "moon", "mars"}

\* C7: Grand Cross detection reports an unordered quadruple of bodies, once,
\* if and only if among its 6 pairs exactly 4 are square edges and exactly 2
\* are opposition edges, with no check that the two oppositions are on
\* disjoint pairs; sun 0, moon 90, mars 180, venus 270 yield one Grand Cross.
\* (For bodies that all carry a numeric longitude.)
PairsOf(names) == {pr \in SUBSET names : Cardinality(pr) = 2}

RelatedPairs(kind, names) ==
    {pr \in PairsOf(names) : \E x \in pr : \E y \in pr : Related(kind, x, y)}

CrossRecords(names) ==
    {t \in 1..Len(patterns.value["grand_crosses"]) :
        SeqSet(patterns.value["grand_crosses"][t].planets) = names}

GrandCrossesExactlyOnce ==
    (ValidDetectCall /\ NumericBodies) =>
        /\ \A t \in 1..Len(patterns.value["grand_crosses"]) :
               /\ SeqSet(patterns.value["grand_crosses"][t].planets) \subseteq BodyNames
               /\ Cardinality(SeqSet(patterns.value["grand_crosses"][t].planets)) = 4
        /\ \A quad \in SUBSET BodyNames :
               Cardinality(quad) = 4 =>
                   LET counts_match ==
                           /\ Cardinality(RelatedPairs("square", quad)) = 4
                           /\ Cardinality(RelatedPairs("opposition", quad)) = 2
                   IN  Cardinality(CrossRecords(quad)) = IF counts_match THEN 1 ELSE 0

\* The chart sun 0, moon 90, mars 180, venus 270 gave one Grand Cross.
GrandCrossAt0And90And180And270 ==
    /\ ListFromSameBodies
    /\ [i \in 1..Len(bodies) |-> bodies[i].lon] = <<0, 90, 180, 270>>
    /\ patternsCall.bodies = DictOf(bodies)
    /\ Len(patterns.value["grand_crosses"]) = 1
    /\ SeqSet(patterns.value["grand_crosses"][1].planets) = {"sun", "moon", "mars", "venus"}

\* C8: if a set S of at least 3 bodies lies within the orb (shortest-arc
\* distance, 8 degrees) of one another and every other body of the chart is
\* more than the orb away from every member of S, detect_stelliums reports
\* exactly one stellium and its members are exactly S, wherever on the
\* circle S lies, including across 0/360 degrees.
CompleteBodies ==
    \A i \in 1..Len(patternsCall.bodies.items) :
        /\ patternsCall.bodies.items[i].lonKind = "num"
        /\ patternsCall.bodies.items[i].hasSign

IsolatedCluster(S) ==
    LET items == patternsCall.bodies.items
    IN  /\ Cardinality(S) >= 3
        /\ \A i \in S : \A j \in S :
               Separation(items[i].lon, items[j].lon) <= DefaultStelliumOrb
        /\ \A i \in S : \A o \in (1..Len(items)) \ S :
               Separation(items[i].lon, items[o].lon) > DefaultStelliumOrb

IsolatedClusterReported ==
    (ValidDetectCall /\ CompleteBodies) =>
        \A S \in SUBSET (1..Len(patternsCall.bodies.items)) :
            IsolatedCluster(S) =>
                /\ Len(patterns.value["stelliums"]) = 1
                /\ SeqSet(patterns.value["stelliums"][1].planets)
                       = {patternsCall.bodies.items[i].name : i \in S}

\* C9: given a valid aspect list and bodies that lack a key a detector reads
\* (sign, read by the Stellium detector), detect_aspect_patterns does not
\* raise, the entry of each failing detector is an empty list and the other
\* entries are what they are when the key is present.
LacksKey ==
    \E i \in 1..Len(patternsCall.bodies.items) :
        \/ ~patternsCall.bodies.items[i].hasSign
        \/ patternsCall.bodies.items[i].lonKind = "missing"

\* Whether the detector behind the entry raises on the bodies handed over.
DetectorFails(key) ==
    LET graph == build_aspect_graph(patternsCall.aspects)
        items == patternsCall.bodies.items
    IN  CASE key = "grand_trines" -> detect_grand_trines(graph, items).raised
          [] key = "grand_crosses" -> detect_grand_crosses(graph, items).raised
          [] key = "stelliums" -> detect_stelliums(items, DefaultStelliumOrb).raised
          [] OTHER -> FALSE

\* The same call on the chart's bodies, which carry every key.
WithKeysPresent(seed) ==
    detect_aspect_patterns(patternsCall.aspects, DictOf(bodies), seed).value

FailingDetectorIsolated ==
    (ValidDetectCall /\ LacksKey) =>
        /\ patterns.status = "returned"
        /\ \E seed \in BOOLEAN :
               LET complete == WithKeysPresent(seed)
               IN  \A key \in PatternKeys :
                       IF DetectorFails(key)
                       THEN patterns.value[key] = <<>>
                       ELSE patterns.value[key] = complete[key]

\* No body carries a sign, the Stellium detector found a cluster and failed,
\* and the T-square found with the signs present is reported.
StelliumFailedTSquareKept ==
    /\ ValidDetectCall
    /\ \A i \in 1..Len(patternsCall.bodies.items) :
           /\ ~patternsCall.bodies.items[i].hasSign
           /\ patternsCall.bodies.items[i].lonKind = "num"
    /\ DetectorFails("stelliums")
    /\ patterns.value["stelliums"] = <<>>
    /\ WithKeysPresent(FALSE)["stelliums"] # <<>>
    /\ patterns.value["t_squares"] # <<>>

NumericOrb(arg) == arg.kind \in {"int", "nan", "inf"}
PositiveOrb(arg) == arg.kind \in {"int", "inf"} /\ arg.val > 0

StrengthWithinUnitInterval ==
    (/\ strengthResult.status # "idle"
     /\ NumericOrb(strengthCall[1])
     /\ PositiveOrb(strengthCall[2])
     /\ strengthCall[3].kind = "str") =>
        /\ strengthResult.status = "returned"
        /\ ~strengthResult.nan
        /\ strengthResult.value >= 0
        /\ strengthResult.value <= 1000
        /\ (strengthCall[1] = IntArg(0) /\ strengthCall[3].name = "conjunction"
               => strengthResult.value = 1000)
        /\ (strengthCall[1] = strengthCall[2] /\ strengthCall[1].kind = "int"
               => strengthResult.value = 0)

\* C12: compute_aspects fails with an error, returning no partial list, when
\* bodies is None, empty or not a mapping, or when any entry of bodies lacks
\* the longitude field, also when that entry is excluded by the filter.
LacksLongitude(call) ==
    \E i \in 1..Len(call.bodies.items) : call.bodies.items[i].lonKind = "missing"

BadBodiesRefused ==
    (/\ aspects.status # "idle"
     /\ \/ aspectsCall.bodies.kind # "dict"
        \/ aspectsCall.bodies.items = <<>>
        \/ LacksLongitude(aspectsCall)) =>
        /\ aspects.status = "raised"
        /\ aspects.value = <<>>

\* The entry without a longitude was not named by the filter, two entries
\* with one were, and the call failed.
ExcludedEntryWithoutLongitudeRefused ==
    /\ aspects.status = "raised"
    /\ aspectsCall.bodies.kind = "dict"
    /\ aspectsCall.include_points.kind = "list"
    /\ LET items == aspectsCall.bodies.items
           named == {i \in 1..Len(items) :
                        items[i].name \in aspectsCall.include_points.names}
       IN  /\ Cardinality(named) >= 2
           /\ \A i \in named : items[i].lonKind = "num"
           /\ \E i \in (1..Len(items)) \ named : items[i].lonKind = "missing"

\* C13: calculate_aspect_strength raises, instead of returning a value,
\* whenever actual_orb or max_orb is non-numeric, the kind is not a string,
\* or max_orb <= 0; a negative actual_orb is not an error and gives the same
\* result as its absolute value.
AtMostZero(arg) == arg.kind \in {"int", "inf"} /\ arg.val <= 0
BelowZero(arg) == arg.kind \in {"int", "inf"} /\ arg.val < 0
Negated(arg) == [arg EXCEPT !.val = 0 - arg.val]

InvalidStrengthCall ==
    \/ ~NumericOrb(strengthCall[1])
    \/ ~NumericOrb(strengthCall[2])
    \/ strengthCall[3].kind # "str"
    \/ AtMostZero(strengthCall[2])

InvalidStrengthCallRaises ==
    strengthResult.status # "idle" =>
        /\ InvalidStrengthCall => strengthResult.status = "raised"
        /\ (BelowZero(strengthCall[1]) /\ ~InvalidStrengthCall) =>
               /\ strengthResult.status = "returned"
               /\ strengthResult \in calculate_aspect_strength_call(
                      Negated(strengthCall[1]), strengthCall[2], strengthCall[3])

\* A str given as actual_orb, with a valid max_orb and kind, was refused.
NonNumericOrbRaised ==
    /\ strengthResult.status = "raised"
    /\ strengthCall[1].kind = "str"
    /\ strengthCall[2] = IntArg(MaxOrb)
    /\ strengthCall[3].kind = "str"

\* What compute_aspects requires of bodies and the orb table.
WellFormedComputeCall ==
    /\ aspects.status # "idle"
    /\ aspectsCall.bodies.kind = "dict"
    /\ aspectsCall.bodies.items # <<>>
    /\ ~LacksLongitude(aspectsCall)
    /\ aspectsCall.aspect_orbs.kind \in {"none", "dict"}

\* C14: whenever a filter of body names is supplied to compute_aspects, a
\* list or a set, of any size including empty, only names in the filter are
\* candidates, so both bodies of every returned aspect are named in the
\* filter; filter names that are not in bodies are ignored without error.
FilterNamesEveryAspect ==
    (WellFormedComputeCall /\ aspectsCall.include_points.kind \in {"list", "set"}) =>
        /\ aspects.status = "returned"
        /\ \A r \in 1..Len(aspects.value) :
               PairOf(aspects.value[r]) \subseteq aspectsCall.include_points.names

\* C15: when processing one pair in compute_aspects fails, by a non-numeric
\* longitude or by an exception of the strength scoring (a custom orb of 0
\* matched exactly), no record at all is emitted for that pair, the call
\* does not raise, and the records of all other pairs are the same as
\* without the failure.
ScoringFails(call, b1, b2) ==
    LET hits == MatchingKinds(Separation(b1.lon, b2.lon), EffectiveOrbs(call))
    IN  /\ hits # {}
        /\ OrbGet(EffectiveOrbs(call),
                  AspectOrder[CHOOSE k \in hits : \A h \in hits : k <= h]) <= 0

PairFails(call, b1, b2) ==
    \/ b1.lonKind # "num"
    \/ b2.lonKind # "num"
    \/ ScoringFails(call, b1, b2)

FailedPairSkipped ==
    (WellFormedComputeCall /\ aspectsCall.include_points.kind \in {"none", "list"}) =>
        /\ aspects.status = "returned"
        /\ LET items == aspectsCall.bodies.items
           IN  \A i \in 1..Len(items) : \A j \in 1..Len(items) :
                   (/\ i < j
                    /\ IsCandidate(aspectsCall, items[i])
                    /\ IsCandidate(aspectsCall, items[j])) =>
                       IF PairFails(aspectsCall, items[i], items[j])
                       THEN RecordsOf(aspects.value, items[i].name, items[j].name) = {}
                       ELSE FirstMatchingKindFor(aspectsCall, aspects.value,
                                                 items[i], items[j])

\* The well-formed records of the list handed to build_aspect_graph whose
\* kind the graph keeps.
WellFormed(record) == record.defect = "none"

KeptKinds == {"square", "trine", "opposition", "quincunx", "conjunction"}

KeptRecords ==
    IF graphCall.kind # "list" THEN {}
    ELSE {r \in 1..Len(graphCall.items) :
             /\ WellFormed(graphCall.items[r])
             /\ graphCall.items[r].aspect \in KeptKinds}

\* How often the connection (to, kind) occurs in the adjacency list of from.
EdgeCount(from, to, kind) ==
    IF from \notin DOMAIN graphResult.value.adj THEN 0
    ELSE Cardinality({i \in 1..Len(graphResult.value.adj[from]) :
             graphResult.value.adj[from][i] = [to |-> to, aspect |-> kind]})

\* C16: in every graph returned by build_aspect_graph, each edge has a kind
\* in {square, trine, opposition, quincunx, conjunction} and edges are
\* symmetric: an edge to b of kind k in a's adjacency list occurs exactly as
\* often as an edge to a of kind k in b's list; sextile, semi-square and
\* semi-sextile aspects add no node and no edge.
GraphSymmetricOverKeptKinds ==
    graphResult.status = "returned" =>
        LET g == graphResult.value
        IN  /\ DOMAIN g.adj = SeqSet(g.nodes)
            /\ \A n \in DOMAIN g.adj : \A i \in 1..Len(g.adj[n]) :
                   g.adj[n][i].aspect \in KeptKinds
            /\ \A a \in AllNames : \A b \in AllNames : \A k \in SeqSet(AspectOrder) :
                   /\ EdgeCount(a, b, k) = EdgeCount(b, a, k)
                   /\ EdgeCount(a, b, k) =
                          Cardinality({r \in KeptRecords :
                              /\ graphCall.items[r].aspect = k
                              /\ a # b
                              /\ PairOf(graphCall.items[r]) = {a, b}})
            /\ SeqSet(g.nodes) =
                   UNION {PairOf(graphCall.items[r]) : r \in KeptRecords}

\* The list held a sextile one of whose bodies is in no kept record, and
\* the graph has nodes but not that body.
SextileBodyIsNoNode ==
    /\ graphResult.status = "returned"
    /\ graphCall.kind = "list"
    /\ graphResult.value.nodes # <<>>
    /\ \E r \in 1..Len(graphCall.items) :
           /\ WellFormed(graphCall.items[r])
           /\ graphCall.items[r].aspect = "sextile"
           /\ \E n \in PairOf(graphCall.items[r]) :
                  n \notin SeqSet(graphResult.value.nodes)

\* C17: build_aspect_graph never raises: an empty, None or non-list input
\* yields an empty graph, and a list containing malformed records (missing
\* `between` or `aspect`, non-string participant, wrong number of
\* participants) yields the same graph as the list with those records
\* removed, with no partial edge left by a malformed record.
MalformedRecordsLeaveNoTrace ==
    graphResult.status # "idle" =>
        /\ graphResult.status = "returned"
        /\ (graphCall.kind # "list" \/ graphCall.items = <<>>) =>
               graphResult.value = EmptyGraph
        /\ graphCall.kind = "list" =>
               graphResult.value =
                   build_aspect_graph(ListOf(SelectSeq(graphCall.items, WellFormed)))

\* The first record names a non-string participant, the last names one body
\* only, and the records between them gave the graph its nodes.
TwoMalformedRecordsSkipped ==
    /\ graphResult.status = "returned"
    /\ graphCall.kind = "list"
    /\ Len(graphCall.items) >= 3
    /\ graphCall.items[1].defect = "not_str"
    /\ graphCall.items[1].aspect \in KeptKinds
    /\ graphCall.items[Len(graphCall.items)].defect = "one_body"
    /\ graphResult.value.nodes # <<>>
    /\ graphCall.items[1].between[1] \notin SeqSet(graphResult.value.nodes)

\* ------------------------------------------------------------------ C18
\* C18: save_chart returns a positive integer, and get_chart(c) of an id c
\* that save_chart returned and that delete_chart was not called with since
\* returns a record whose name, birth date and chart_data are those of the
\* most recent save that returned c, whatever was saved in between;
\* get_chart of any other id returns None.
LiveCharts == DOMAIN chartLog \ deletedLog

ChartRoundTrip ==
    /\ dbCall[1] = "save_chart" => dbResult \in Nat \ {0}
    /\ dbCall[1] = "get_chart" =>
           IF dbCall[2] \in LiveCharts
           THEN /\ dbResult.found
                /\ dbResult.row.name = chartLog[dbCall[2]].name
                /\ dbResult.row.birth_date = chartLog[dbCall[2]].birth_date
                /\ dbResult.row.chart_data = chartLog[dbCall[2]].chart_data
           ELSE dbResult = NoChart

\* Chart 1 was saved, a row was inserted after it, and get_chart(1) found
\* chart 1.
SavedChartReadBack ==
    /\ dbCall = <<"get_chart", 1>>
    /\ dbResult.found
    /\ 1 \in LiveCharts
    /\ Inserted >= 2
\* ------------------------------------------------------------------ C19
\* C19: user_preferences never holds more than one row per key, and
\* get_preference(k, d) returns the value of the most recent
\* save_preference(k, v), or d when k was never saved.
PreferenceIsLatestSaved ==
    /\ \A row \in userPreferences : \A other \in userPreferences :
           row.key = other.key => row = other
    /\ dbCall[1] = "get_preference" =>
           LET key == dbCall[2][1]
               default == dbCall[2][2]
           IN  dbResult = IF key \in DOMAIN prefLog THEN PyStr(prefLog[key])
                          ELSE default

\* A key was saved twice, and get_preference returned the second value
\* although a default was passed.
PreferenceOverwrittenAndRead ==
    /\ dbCall[1] = "get_preference"
    /\ dbCall[2][2] # PyNone
    /\ prefSeq = 2
    /\ Cardinality(userPreferences) = 1
    /\ dbResult = PyStr(prefLog[dbCall[2][1]])
\* ------------------------------------------------------------------ C20
\* C20 as stated: in detect_t_squares the reported_configs guard never
\* turns a candidate away.
TSquareRun(seed) == TSquareLoops(build_aspect_graph(patternsCall.aspects), seed)

GuardNeverSuppresses ==
    ValidDetectCall =>
        \A seed \in BOOLEAN : TSquareRun(seed).suppressed = <<>>

\* C20: build_aspect_graph lists every opposition at both of its ends, so
\* detect_t_squares enumerates it as (A, B) and as (B, A) and finds every
\* qualifying triple from both; the reported_configs guard turns away every
\* finding after the first, and only findings of a triple already reported:
\* for each reported T-square the same focal planet with the opposition
\* reversed is among the candidates turned away.
EveryTSquareFoundFromBothEnds ==
    ValidDetectCall =>
        \A seed \in BOOLEAN :
            LET run == TSquareRun(seed)
                Reported == {{run.out[t].focal_planet} \cup SeqSet(run.out[t].opposition) :
                                t \in 1..Len(run.out)}
            IN  /\ \A t \in 1..Len(run.out) :
                       <<run.out[t].focal_planet, run.out[t].opposition[2],
                         run.out[t].opposition[1]>> \in SeqSet(run.suppressed)
                /\ \A c \in 1..Len(run.suppressed) :
                       SeqSet(run.suppressed[c]) \in Reported
                /\ Len(run.suppressed) >= Len(run.out)

\* The chart sun 0, moon 90, mars 180: the T-square was reported from the
\* opposition (sun, mars) and found again, and turned away, from
\* (mars, sun).
TSquareFoundAgainFromOtherEnd ==
    /\ ValidDetectCall
    /\ ListFromSameBodies
    /\ [i \in 1..Len(bodies) |-> bodies[i].lon] = <<0, 90, 180>>
    /\ patterns.value["t_squares"] = TSquareRun(TRUE).out
    /\ Len(TSquareRun(TRUE).out) = 1
    /\ TSquareRun(TRUE).suppressed = << <<"moon", "mars", "sun">> >>
\* ------------------------------------------------------------------ C21
\* C21 as stated: the element of every reported Grand Trine is that of the
\* longitude of the member whose name sorts first.
PositionOf(name) ==
    CHOOSE i \in 1..Len(patternsCall.bodies.items) :
        patternsCall.bodies.items[i].name = name

MemberPositions(record) == [m \in 1..3 |-> PositionOf(record.planets[m])]

ElementOfLexicographicallyFirst ==
    (ValidDetectCall /\ NumericBodies) =>
        \A t \in 1..Len(patterns.value["grand_trines"]) :
            LET rec == patterns.value["grand_trines"][t]
                items == patternsCall.bodies.items
            IN  rec.element
                    = get_trine_element(items[LexFirst(items, MemberPositions(rec))].lon)

\* C21: the element of every reported Grand Trine is that of the longitude
\* of the member that comes first in the insertion order of the bodies
\* mapping (0-120 Fire, 120-240 Earth, otherwise Air/Water); that member is
\* listed first in the record.
ElementOfFirstInserted ==
    (ValidDetectCall /\ NumericBodies) =>
        \A t \in 1..Len(patterns.value["grand_trines"]) :
            LET rec == patterns.value["grand_trines"][t]
                items == patternsCall.bodies.items
                first == CHOOSE i \in SeqSet(MemberPositions(rec)) :
                             \A j \in SeqSet(MemberPositions(rec)) : i <= j
            IN  /\ rec.element = get_trine_element(items[first].lon)
                /\ rec.planets[1] = items[first].name
                /\ rec.element = IF items[first].lon % 360 < 120 THEN "Fire"
                                 ELSE IF items[first].lon % 360 < 240 THEN "Earth"
                                 ELSE "Air/Water"

\* sun 0, moon 120, mars 240: the Grand Trine is tagged Fire after sun, the
\* first inserted, while mars, which sorts first, stands at 240.
FireTrineWhoseFirstNameIsAt240 ==
    /\ ListFromSameBodies
    /\ Len(patterns.value["grand_trines"]) >= 1
    /\ patterns.value["grand_trines"][1].planets = <<"sun", "moon", "mars">>
    /\ patterns.value["grand_trines"][1].element = "Fire"
    /\ patternsCall.bodies.items[PositionOf("mars")].lon = 240
\* ------------------------------------------------------------------ C22
\* C22: no body outside the 12-name whitelist is the focal planet or an
\* opposition end of a reported T-square, and the T-squares reported are
\* those reported for the aspect list without the records that name a body
\* outside the whitelist.
NamesOutsider(record) ==
    record.defect = "none" /\ ~(PairOf(record) \subseteq valid_bodies)

AmongWhitelisted(record) == ~NamesOutsider(record)

WithoutOutsiders(list) == ListOf(SelectSeq(list.items, AmongWhitelisted))

OutsidersInvisibleToTSquares ==
    ValidDetectCall =>
        /\ \A t \in 1..Len(patterns.value["t_squares"]) :
               /\ patterns.value["t_squares"][t].focal_planet \in valid_bodies
               /\ SeqSet(patterns.value["t_squares"][t].opposition) \subseteq valid_bodies
        /\ \E seed \in BOOLEAN :
               patterns.value["t_squares"]
                   = detect_t_squares(
                         build_aspect_graph(WithoutOutsiders(patternsCall.aspects)), seed)
        /\ \A seed \in BOOLEAN :
               detect_t_squares(build_aspect_graph(patternsCall.aspects), seed)
                   = detect_t_squares(
                         build_aspect_graph(WithoutOutsiders(patternsCall.aspects)), seed)

\* chiron is square to both ends of the opposition of sun and mars, and the
\* T-squares reported are one or more, none of them with chiron.
ChironSquareToOppositionUnreported ==
    /\ ListFromSameBodies
    /\ Related("opposition", "sun", "mars")
    /\ Related("square", "chiron", "sun")
    /\ Related("square", "chiron", "mars")
    /\ Len(patterns.value["t_squares"]) >= 1
    /\ \A t \in 1..Len(patterns.value["t_squares"]) :
           patterns.value["t_squares"][t].focal_planet # "chiron"
\* ------------------------------------------------------------------ C23
\* C23: in the list detect_stelliums returns no body is a member of two
\* stelliums, every stellium has at least 3 members, and no member of a
\* reported stellium is taken as the seed of a cluster afterwards.
StelliumRun == StelliumLoops(patternsCall.bodies.items, DefaultStelliumOrb)

StelliumsIgnoreAspectList ==
    (/\ patterns.status # "idle"
     /\ patternsCall.aspects.kind = "list"
     /\ patternsCall.bodies.kind = "dict"
     /\ patternsCall.bodies.items # <<>>) =>
        LET alone == detect_stelliums(patternsCall.bodies.items, DefaultStelliumOrb)
        IN  ~alone.raised =>
                /\ patterns.status = "returned"
                /\ patterns.value["stelliums"] = alone.list
\* ------------------------------------------------------------------ C25
\* C25: every two members of a reported stellium are within the orb of
\* each other by shortest arc, and orb_range is the largest separation of
\* two members, also for a cluster that straddles 0/360 degrees.
LongitudeOf(name) == patternsCall.bodies.items[PositionOf(name)].lon

MemberSeparations(record) ==
    {Separation(LongitudeOf(record.planets[m]), LongitudeOf(record.planets[n])) :
        m \in 1..Len(record.planets), n \in 1..Len(record.planets)}

StelliumMembersWithinOrb ==
    (ValidDetectCall /\ CompleteBodies) =>
        \A t \in 1..Len(patterns.value["stelliums"]) :
            LET rec == patterns.value["stelliums"][t]
            IN  /\ \A d \in MemberSeparations(rec) : d <= DefaultStelliumOrb
                /\ rec.orb_range \in MemberSeparations(rec)
                /\ \A d \in MemberSeparations(rec) : d <= rec.orb_range
\* ------------------------------------------------------------------ C26
\* C26: with the default orb table the eight windows [angle - orb,
\* angle + orb] are pairwise disjoint, so no separation in [0, 180] is within
\* the tolerance of two kinds, and under default orbs the kind recorded for
\* a pair is the only kind whose tolerance its separation satisfies.
WindowsApart(kind1, kind2) ==
    \/ ASPECTS[kind1] + ASPECT_ORBS[kind1] < ASPECTS[kind2] - ASPECT_ORBS[kind2]
    \/ ASPECTS[kind2] + ASPECT_ORBS[kind2] < ASPECTS[kind1] - ASPECT_ORBS[kind1]

WindowsPairwiseApart ==
    \A kind1 \in DOMAIN ASPECTS : \A kind2 \in DOMAIN ASPECTS :
        kind1 # kind2 => WindowsApart(kind1, kind2)

NoSeparationInTwoWindows ==
    \A sep \in 0..180 : Cardinality(MatchingKinds(sep, ASPECT_ORBS)) <= 1

DefaultWindowsDisjoint ==
    /\ WindowsPairwiseApart
    /\ NoSeparationInTwoWindows
    /\ (aspects.status = "returned" /\ aspectsCall.aspect_orbs.kind = "none") =>
           \A r \in 1..Len(aspects.value) :
               {AspectOrder[k] : k \in MatchingKinds(aspects.value[r].angle, ASPECT_ORBS)}
                   = {aspects.value[r].aspect}

\* Under default orbs pairs were recorded with three or more kinds, one of
\* them at the very edge of its window.
ThreeKindsUnderDefaultOrbs ==
    /\ aspects.status = "returned"
    /\ aspectsCall.aspect_orbs.kind = "none"
    /\ Cardinality({aspects.value[r].aspect : r \in 1..Len(aspects.value)}) >= 3
    /\ \E r \in 1..Len(aspects.value) :
           aspects.value[r].orb = ASPECT_ORBS[aspects.value[r].aspect]
\* ------------------------------------------------------------------ C27
\* C27: when the aspect list is that of compute_aspects with the default
\* orbs, every quadruple reported as a Grand Cross has its two oppositions
\* on disjoint pairs of bodies, and each of its four bodies is square to
\* exactly two of the others and opposite exactly one.
RelatedTo(kind, name, names) == {other \in names : Related(kind, name, other)}

TrueCross(names) ==
    /\ Cardinality(names) = 4
    /\ Cardinality(RelatedPairs("opposition", names)) = 2
    /\ \A pr \in RelatedPairs("opposition", names) :
       \A qr \in RelatedPairs("opposition", names) : pr # qr => pr \cap qr = {}
    /\ \A name \in names :
           /\ Cardinality(RelatedTo("square", name, names)) = 2
           /\ Cardinality(RelatedTo("opposition", name, names)) = 1

ReportedCrossesAreTrueCrosses ==
    (ListFromSameBodies /\ NumericBodies /\ aspectsCall.aspect_orbs.kind = "none") =>
        \A t \in 1..Len(patterns.value["grand_crosses"]) :
            TrueCross(SeqSet(patterns.value["grand_crosses"][t].planets))

\* Under default orbs two Grand Crosses were reported in a chart of five
\* bodies, which also holds four bodies with four squares and one
\* opposition that are not reported.
TwoCrossesAndANearMiss ==
    /\ ListFromSameBodies /\ NumericBodies
    /\ aspectsCall.aspect_orbs.kind = "none"
    /\ Len(patterns.value["grand_crosses"]) = 2
    /\ \E quad \in SUBSET BodyNames :
           /\ Cardinality(quad) = 4
           /\ Cardinality(RelatedPairs("square", quad)) = 4
           /\ Cardinality(RelatedPairs("opposition", quad)) = 1
           /\ CrossRecords(quad) = {}
\* ------------------------------------------------------------------ C28
\* C28: after any sequence of save_chart, save_reading,
\* save_compatibility_analysis and delete_chart calls every stored reading
\* and every stored compatibility analysis references ids of rows of the
\* charts table.
ChartRowIds == {row.id : row \in charts}

NoOrphanRows ==
    /\ \A row \in readings : row.chart_id \in ChartRowIds
    /\ \A row \in analyses :
           row.chart1_id \in ChartRowIds /\ row.chart2_id \in ChartRowIds

\* ------------------------------------------------------------------ C29
\* C29: a save_chart call with the six identity values of a stored chart
\* returns that chart's id and leaves one row for them, and get_chart(id)
\* then returns every argument of the most recent call, house_system and
\* chart_data included.
ArgumentsOf(row) ==
    [name |-> row.name, birth_date |-> row.birth_date, birth_time |-> row.birth_time,
     timezone |-> row.timezone, latitude |-> row.latitude, longitude |-> row.longitude,
     house_system |-> row.house_system, chart_data |-> row.chart_data]

UpsertReflectsLastCall ==
    /\ \A row \in charts : \A other \in charts :
           SameChart(row, other) => row.id = other.id
    /\ (dbCall[1] = "get_chart" /\ dbCall[2] \in LiveCharts) =>
           /\ dbResult.found
           /\ ArgumentsOf(dbResult.row) = chartLog[dbCall[2]]

\* ------------------------------------------------------------------ C30
\* The first cusp calculate_houses is said to return for the system and the
\* Ascendant the ephemeris reported.
HouseOneFromAscendant(house_system, asc) ==
    IF house_system = "W" THEN (normalize_angle(asc) \div 30) * 30
    ELSE normalize_angle(asc)

\* The call the claim is about: calculate_houses for 'W' or 'A', no
\* pre-computed ascendant, and it returned.
DerivedHousesReturned ==
    /\ housesCall.function = "calculate_houses"
    /\ housesCall.call.house_system \in {"W", "A"}
    /\ housesCall.call.ascendant.kind = "none"
    /\ housesResult.status = "returned"

\* C30: calculate_houses for 'W' or 'A' without a pre-computed ascendant puts
\* house_1 at the start of the Ascendant's sign ('W') or at the Ascendant
\* itself ('A'), the Ascendant being the one get_ascendant_mc_houses returned
\* and not the Midheaven, and house_i lies 30*(i-1) degrees after house_1
\* modulo 360.
HousesStartAtAscendant ==
    DerivedHousesReturned =>
        LET houses == housesResult.value
            first == HouseOneFromAscendant(housesCall.call.house_system,
                                           housesCall.swe.ascmc[1])
        IN  /\ houses[1].ecliptic_longitude_deg = first
            /\ \A i \in 1..12 :
                   houses[i].ecliptic_longitude_deg = (first + 30 * (i - 1)) % 360

====
